---- MODULE Spec2Model ----
(***************************************************************************)
(* A model of the extension-automation helpers:                            *)
(*   - ExtensionIdExtractor (helpers/ExtensionIdExtractor.js): the parse   *)
(*     of an extension URL, the synchronous scan of a browser context, and *)
(*     the event/polling/timeout race of waitForExtensionId;               *)
(*   - BrowserManager (helpers/BrowserManager.js): launch, close and the   *)
(*     accessors guarded by _ensureInitialized.                            *)
(* Strings are sequences of one-character strings, so that startsWith and  *)
(* split are computed character by character as the JavaScript does.       *)
(***************************************************************************)
EXTENDS Integers, Sequences, FiniteSets, TLC

VARIABLES
  \* ---- ExtensionIdExtractor.extractIdFromUrl applied to one input
  url,              \* the argument (a JavaScript value)
  extracted,        \* the value returned, UNSET before the call
  \* ---- the browser context (Playwright BrowserContext) seen by a scan
  serviceWorkers,   \* context.serviceWorkers(): sequence of worker URLs
  backgroundPages,  \* context.backgroundPages(): sequence of page URLs
  pages,            \* context.pages(): sequence of page URLs
  scanned,          \* the value returned by getExtensionId, UNSET before
  \* ---- one call of ExtensionIdExtractor.waitForExtensionId
  now,              \* Date.now(), in clock units
  envSteps,         \* changes the browser made to the context so far
  waitPc,           \* "idle" | "racing" | "returned"
  startTime,        \* const startTime = Date.now()
  timeout,          \* options.timeout
  pollInterval,     \* options.pollInterval
  eventPromise,     \* PENDING or the value it resolved to
  pollingPromise,   \* PENDING or the value it resolved to
  timeoutPromise,   \* PENDING or the value it resolved to
  racePromise,      \* Promise.race([...]): PENDING or its value
  listening,        \* handler subscribed to 'serviceworker' on the context
  pollTimer,        \* due time of the polling loop's setTimeout, or NoTimer
  timeoutTimer,     \* due time of the timeout's setTimeout, or NoTimer
  returned,         \* the value the call returned, UNSET before
  returnTime,       \* Date.now() when the call returned
  outcomes,         \* how many times the call delivered a result
  lateSettles,      \* resolve() calls made after the race had settled
  raised,           \* an exception escaped the call or one of its callbacks
  matchSeen,        \* a scan or a worker event could have matched so far
  seen,             \* what a scan would return, and since when, while racing
  \* ---- one BrowserManager and the contexts it created
  context,          \* this.context: 0 (null) or a context number
  extensionId,      \* this.extensionId: a JavaScript value
  isInitialized,    \* this.isInitialized
  frames,           \* the launch() and close() calls in progress
  created,          \* contexts created by launchPersistentContext so far
  isOpen,           \* context number -> still open
  closeCount,       \* context number -> times context.close() ran on it
  browserId,        \* context number -> identifier the browser gave the extension
  pagesOpened,      \* pages opened through newPage()
  discoveries,      \* waitForExtensionIdWithFallback calls started
  idsOf,            \* context number -> identifiers stored or returned with it
  everLaunched,     \* launch() has been called on this manager
  lastCall,         \* the last launch() or close() and how it ended
  prev,             \* the manager and its contexts when that call started
  lastAccess,       \* the last accessor call and how it ended
  \* ---- one call of ExtensionIdExtractor.waitForExtensionIdWithFallback
  fbPc,             \* the await the call is at, "idle" before, "done" after
  fbId,             \* let extensionId
  fbThrown,         \* the exception in flight through `finally`, "" if none
  fbResult,         \* how the call ended: a returned value or an error
  tempPage,         \* "none" | "open" | "closed"
  tempIdx,          \* position of tempPage in context.pages(), 0 if none
  fbEnv,            \* changes the browser made to the context so far
  attempts,         \* what the waitForExtensionId calls returned, in order
  newPageCalls,     \* context.newPage() calls made
  gotoCalls,        \* tempPage.goto(triggerUrl) calls made
  entryPages,       \* context.pages() when the call was made
  envOpened,        \* pages the browser opened by itself since then
  fbClock,          \* the call's timeout and the time it has spent, in ticks
  \* ---- one call of ExtensionSidePanelPage.waitForLoginSuccess
  judgePc,          \* the await the call is at, "idle" before, "done" after
  judgeResult,      \* "unset" | "true" | "false" | "throw"
  evaluated,        \* the signals whose probe was invoked, in order
  fired,            \* the signals whose probe reported success
  probeErrors,      \* the signals whose probe raised an error
  usernameValue,    \* const usernameValue, UNSET before it is read
  passwordValue,    \* const passwordValue, UNSET before it is read
  judgeElapsed,     \* time spent in the call so far, in units of 1000 ms
  \* ---- the options of the last chromium.launchPersistentContext call
  launchArgs,       \* contextOptions.args
  \* ---- one call of login() on a page object
  loginPc,          \* the await the call is at, "idle" before, "done" after
  loginPage,        \* "sidePanel" (ExtensionSidePanelPage) | "external"
  multiStep,        \* testConfig.externalSite.isMultiStep
  loginTrace,       \* the steps the call has begun, in order
  loginFailedAt,    \* the step that raised, "" if none
  detectorResult,   \* what waitForLoginSuccess gave: "unset", "true", "false", "throw"
  loginResult,      \* "unset" | "true" | "false" | "throw"
  \* ---- one SidePanelHelper and the pages of its context
  panelPc,          \* the await openSidePanelAlongside is at
  panelPages,       \* page number -> [url, open], the pages ever in the context
  mainPage,         \* this.mainPage: 0 (null) or a page number
  sidePanelPage,    \* this.sidePanelPage: 0 (null) or a page number
  panelId,          \* this.extensionId
  panelCalls,       \* openSidePanelAlongside calls made
  panelCreated,     \* pages created by the call in progress or just ended
  panelEntry,       \* the pages when that call was made
  panelResult,      \* what the call gave: 0 before, a page number, or -1 (throw)
  \* ExternalSitePage.waitForLoginSuccess / isLoggedIn
  sitePc,           \* "idle", "url", "indicator", "done"
  siteCall,         \* the method called
  siteUrl,          \* the URL the page shows
  siteIndicator,    \* whether the success indicator is visible
  siteTrail,        \* URLs the page went to since the login attempt
  siteResult,       \* "unset", "true", "false"
  \* ExtensionHelper (legacy)
  hPc,              \* "idle", "creating", "loading", "done"
  hContext,         \* this.context: 0 (null) or a context number
  hExtensionId,     \* this.extensionId
  hView,            \* what the context shows when waitForExtensionLoad looks
  hIdContext,       \* the context on which this.extensionId was found
  hLaunches,        \* contexts created so far
  hResult           \* how the last launch ended: "unset", "ok", "throw"

extractVars == <<url, extracted>>
ctxVars     == <<serviceWorkers, backgroundPages, pages>>
scanVars    == <<scanned>>
waitVars    == <<now, envSteps, waitPc, startTime, timeout, pollInterval,
                 eventPromise, pollingPromise, timeoutPromise, racePromise,
                 listening, pollTimer, timeoutTimer, returned, returnTime,
                 outcomes, lateSettles, raised, matchSeen, seen>>
mgrVars     == <<context, extensionId, isInitialized, frames,
                 created, isOpen, closeCount, browserId, pagesOpened,
                 discoveries, idsOf, everLaunched, lastCall, prev, lastAccess>>
fbVars      == <<fbPc, fbId, fbThrown, fbResult, tempPage, tempIdx, fbEnv,
                 attempts, newPageCalls, gotoCalls, entryPages, envOpened,
                 fbClock>>
judgeVars   == <<judgePc, judgeResult, evaluated, fired, probeErrors,
                 usernameValue, passwordValue, judgeElapsed>>
flagVars    == <<launchArgs>>
loginVars   == <<loginPc, loginPage, multiStep, loginTrace, loginFailedAt,
                 detectorResult, loginResult>>
panelVars   == <<panelPc, panelPages, mainPage, sidePanelPage, panelId,
                 panelCalls, panelCreated, panelEntry, panelResult>>
siteVars    == <<sitePc, siteCall, siteUrl, siteIndicator, siteTrail,
                 siteResult>>
helperVars  == <<hPc, hContext, hExtensionId, hView, hIdContext, hLaunches,
                 hResult>>
vars        == <<extractVars, ctxVars, scanVars, waitVars, mgrVars,
                 fbVars, judgeVars, flagVars, loginVars, panelVars,
                 siteVars, helperVars>>

----------------------------------------------------------------------------
(* JavaScript values: null, or a string. *)

NULL    == [kind |-> "null", s |-> <<>>]
UNSET   == [kind |-> "unset", s |-> <<>>]
PENDING == [kind |-> "pending", s |-> <<>>]
Str(s)  == [kind |-> "str", s |-> s]

\* JavaScript truthiness of null or a string: a non-empty string.
Truthy(v) == v.kind = "str" /\ v.s # <<>>

\* 'chrome-extension://'
Scheme ==
  <<"c","h","r","o","m","e","-","e","x","t","e","n","s","i","o","n",":","/","/">>

\* String.prototype.startsWith
startsWith(s, prefix) ==
  /\ Len(s) >= Len(prefix)
  /\ SubSeq(s, 1, Len(prefix)) = prefix

\* String.prototype.split('/'): the segments between the slashes.
RECURSIVE SplitFrom(_, _, _)
SplitFrom(s, i, cur) ==
  IF i > Len(s) THEN <<cur>>
  ELSE IF s[i] = "/" THEN <<cur>> \o SplitFrom(s, i + 1, <<>>)
  ELSE SplitFrom(s, i + 1, Append(cur, s[i]))

split(s) == SplitFrom(s, 1, <<>>)

\* A wrong segment index: the path segment instead of the host segment.
extractIdFromUrl_WrongSegment(u) ==
  IF Truthy(u) /\ startsWith(u.s, Scheme)
  THEN (IF Len(split(u.s)) >= 4 THEN Str(split(u.s)[4]) ELSE NULL)
  ELSE NULL

\* ExtensionIdExtractor.extractIdFromUrl: url.split('/')[2] (index from 0).
extractIdFromUrl(u) ==
  IF Truthy(u) /\ startsWith(u.s, Scheme)
  THEN Str(split(u.s)[3])
  ELSE NULL

\* A loop that returns the first identifier that is not null, empty or not.
RECURSIVE FirstIdFrom_AnyString(_, _)
FirstIdFrom_AnyString(urls, i) ==
  IF i > Len(urls) THEN NULL
  ELSE IF extractIdFromUrl(Str(urls[i])) # NULL
       THEN extractIdFromUrl(Str(urls[i]))
       ELSE FirstIdFrom_AnyString(urls, i + 1)

\* The loop shared by getFromServiceWorkers, getFromBackgroundPages and
\* getFromPages: the first truthy identifier, else null.
RECURSIVE FirstIdFrom(_, _)
FirstIdFrom(urls, i) ==
  IF i > Len(urls) THEN NULL
  ELSE IF Truthy(extractIdFromUrl(Str(urls[i])))
       THEN extractIdFromUrl(Str(urls[i]))
       ELSE FirstIdFrom(urls, i + 1)

getFromServiceWorkers(sw) == FirstIdFrom(sw, 1)
getFromBackgroundPages(bg) == FirstIdFrom(bg, 1)
getFromPages(pg) == FirstIdFrom(pg, 1)

\* A scan that tries the open pages before the service workers.
getExtensionId_PagesFirst(sw, bg, pg) ==
  IF Truthy(getFromPages(pg)) THEN getFromPages(pg)
  ELSE IF Truthy(getFromBackgroundPages(bg)) THEN getFromBackgroundPages(bg)
  ELSE getFromServiceWorkers(sw)

\* ExtensionIdExtractor.getExtensionId
getExtensionId(sw, bg, pg) ==
  IF Truthy(getFromServiceWorkers(sw)) THEN getFromServiceWorkers(sw)
  ELSE IF Truthy(getFromBackgroundPages(bg)) THEN getFromBackgroundPages(bg)
  ELSE getFromPages(pg)

----------------------------------------------------------------------------
(* Bounds and the inputs drawn within them. *)

MaxTail  == 3   \* characters after the head of an enumerated URL
MaxEntries == 4 \* entries of an enumerated context snapshot, all channels

RECURSIVE SeqsUpTo(_, _)
SeqsUpTo(S, n) ==
  IF n = 0 THEN {<<>>}
  ELSE SeqsUpTo(S, n - 1) \cup
       {Append(q, x) : q \in {r \in SeqsUpTo(S, n - 1) : Len(r) = n - 1}, x \in S}

Http == <<"h","t","t","p","s",":","/","/">>

\* Heads of the enumerated URLs: the scheme, near misses of it, others.
UrlHeads ==
  { Scheme,
    SubSeq(Scheme, 1, Len(Scheme) - 1),     \* 'chrome-extension:/'
    <<"x">> \o Scheme,                      \* the scheme not at the start
    Http,
    <<>> }

UrlInputs ==
  {NULL} \cup {Str(h \o t) : h \in UrlHeads, t \in SeqsUpTo({"a", "b", "/"}, MaxTail)}

\* URLs a context may show in a channel.
UrlXYZ   == Scheme \o <<"X","Y","Z","/","s","w",".","j","s">>
UrlQED   == Scheme \o <<"Q","E","D","/","p",".","h","t","m","l">>
UrlWeb   == Http \o <<"a",".","c","o","m","/">>
UrlNoId  == Scheme \o <<"/","x">>
CtxUrls  == {UrlXYZ, UrlQED, UrlWeb, UrlNoId}

----------------------------------------------------------------------------
(* The states in which a part of the program has not been used. *)

NoTimer == 0 - 1

RemoveAt(q, i) == SubSeq(q, 1, i - 1) \o SubSeq(q, i + 1, Len(q))

ExtractIdle == url = NULL /\ extracted = UNSET

CtxEmpty == serviceWorkers = <<>> /\ backgroundPages = <<>> /\ pages = <<>>

ScanIdle == scanned = UNSET

\* No call of waitForExtensionIdWithFallback has been made.
NoClock == [timeout |-> 0, elapsed |-> 0, inAttempts |-> 0, budgets |-> <<>>]

NoResult == [kind |-> "unset", v |-> NULL, error |-> ""]

FbIdle ==
  /\ fbPc = "idle" /\ fbId = UNSET /\ fbThrown = "" /\ fbResult = NoResult
  /\ tempPage = "none" /\ tempIdx = 0 /\ fbEnv = 0
  /\ attempts = <<>> /\ newPageCalls = 0 /\ gotoCalls = 0
  /\ entryPages = <<>> /\ envOpened = <<>>
  /\ fbClock = NoClock

\* No call of waitForLoginSuccess has been made.
JudgeIdle ==
  /\ judgePc = "idle" /\ judgeResult = "unset"
  /\ evaluated = <<>> /\ fired = {} /\ probeErrors = {}
  /\ usernameValue = UNSET /\ passwordValue = UNSET /\ judgeElapsed = 0

\* launchPersistentContext has not been called.
FlagsIdle == launchArgs = <<>>

\* No call of login() has been made.
LoginIdle ==
  /\ loginPc = "idle" /\ loginPage = "sidePanel" /\ multiStep = FALSE
  /\ loginTrace = <<>> /\ loginFailedAt = "" /\ detectorResult = "unset"
  /\ loginResult = "unset"

\* No SidePanelHelper has been constructed.
PanelIdle ==
  /\ panelPc = "idle" /\ panelPages = <<>> /\ mainPage = 0
  /\ sidePanelPage = 0 /\ panelId = NULL /\ panelCalls = 0
  /\ panelCreated = 0 /\ panelEntry = <<>> /\ panelResult = 0

\* No method of the external site's page has been called.
SiteIdle ==
  /\ sitePc = "idle" /\ siteCall = "" /\ siteUrl = NULL
  /\ siteIndicator = FALSE /\ siteTrail = <<>> /\ siteResult = "unset"

NoView == [sw |-> <<>>, bg |-> <<>>, pg |-> <<>>]

\* ExtensionHelper.constructor
HelperIdle ==
  /\ hPc = "idle" /\ hContext = 0 /\ hExtensionId = NULL /\ hView = NoView
  /\ hIdContext = 0 /\ hLaunches = 0 /\ hResult = "unset"

\* Nothing observable yet: no identifier, no poll tick ahead of it.
NotSeen == [id |-> NULL, at |-> 0, tick |-> NoTimer]

WaitIdle ==
  /\ now = 0 /\ envSteps = 0 /\ waitPc = "idle"
  /\ startTime = 0 /\ timeout = 0 /\ pollInterval = 0
  /\ eventPromise = PENDING /\ pollingPromise = PENDING
  /\ timeoutPromise = PENDING /\ racePromise = PENDING
  /\ listening = FALSE /\ pollTimer = NoTimer /\ timeoutTimer = NoTimer
  /\ returned = UNSET /\ returnTime = 0
  /\ outcomes = 0 /\ lateSettles = 0 /\ raised = FALSE /\ matchSeen = FALSE
  /\ seen = NotSeen

----------------------------------------------------------------------------
(* extractIdFromUrl applied to every enumerated input. *)

ExtractCall ==
  /\ extracted = UNSET
  /\ extracted' = extractIdFromUrl(url)
  /\ UNCHANGED <<url, ctxVars, scanVars, waitVars, mgrVars, fbVars, judgeVars,
                 flagVars, loginVars, panelVars,
                 siteVars, helperVars>>

----------------------------------------------------------------------------
(* getExtensionId applied to every enumerated context snapshot. *)

ScanCall ==
  /\ scanned = UNSET
  /\ scanned' = getExtensionId(serviceWorkers, backgroundPages, pages)
  /\ UNCHANGED <<extractVars, ctxVars, waitVars, mgrVars, fbVars, judgeVars,
                 flagVars, loginVars, panelVars,
                 siteVars, helperVars>>

----------------------------------------------------------------------------
(* BrowserManager.  A context is a number; 0 stands for null.  launch() and *)
(* close() are async: each is a frame that advances at its awaits.          *)

MaxContexts == 2   \* contexts one manager creates in a run
MaxPages    == 1   \* pages opened through newPage() in a run

Ctxs == 1..MaxContexts

\* Identifiers the browser may give the loaded extension; null when the
\* extension did not load in that context.
BrowserIds == {NULL, Str(<<"X","Y","Z">>), Str(<<"Q","E","D">>)}

\* What waitForExtensionIdWithFallback may throw: its own error, or the
\* error of the trigger navigation, which it does not catch.
DiscoveryErrors ==
  {"DiscoveryTimeout", "TriggerNavigationError", "TriggerPageError"}

\* testConfig.sidePanelFile
SidePanelFile == <<"s","i","d","e","p","a","n","e","l",".","h","t","m","l">>
PagePaths == {<<"o",".","h","t","m","l">>, <<"a","/","b">>, <<>>}

Accessors ==
  {"getContext", "getExtensionId", "getSidePanelUrl", "getExtensionPageUrl",
   "newPage", "getPages"}

NoCall == [op |-> "none", result |-> "", error |-> "", discoveryError |-> "", ctx |-> 0]
PendingCall(op) ==
  [op |-> op, result |-> "pending", error |-> "", discoveryError |-> "", ctx |-> 0]
NoAccess ==
  [name |-> "none", error |-> "", ctx |-> 0, str |-> NULL,
   fresh |-> FALSE, launching |-> FALSE, after |-> NoCall]

Snapshot ==
  [context |-> context, extensionId |-> extensionId,
   isInitialized |-> isInitialized, created |-> created,
   discoveries |-> discoveries, closeCount |-> closeCount, isOpen |-> isOpen]

\* The identifier `id` was stored or returned while the manager held `c`.
Note(c, id, ids) ==
  IF c # 0 /\ id # NULL THEN [ids EXCEPT ![c] = @ \cup {id}] ELSE ids

\* BrowserManager.constructor
MgrInit ==
  /\ context = 0
  /\ extensionId = NULL
  /\ isInitialized = FALSE
  /\ frames = <<>>
  /\ created = 0
  /\ isOpen = [c \in Ctxs |-> FALSE]
  /\ closeCount = [c \in Ctxs |-> 0]
  /\ browserId = [c \in Ctxs |-> NULL]
  /\ pagesOpened = 0
  /\ discoveries = 0
  /\ idsOf = [c \in Ctxs |-> {}]
  /\ everLaunched = FALSE
  /\ lastCall = NoCall
  /\ prev = Snapshot
  /\ lastAccess = NoAccess

\* A check that lets every call through.
ensureInitializedThrows_Never == FALSE

\* A check of the stored context instead of the flag.
ensureInitializedThrows_ChecksContext == context = 0

\* BrowserManager._ensureInitialized: throws unless isInitialized.
ensureInitializedThrows == ~isInitialized

\* BrowserManager._getDefaultArgs, with testConfig.extensionPath filled in.
DefaultArgs ==
  <<"--disable-extensions-except=EXT", "--load-extension=EXT",
    "--no-first-run", "--disable-default-apps", "--disable-popup-blocking">>

\* launchOptions.args as callers give it: left out, or one more flag.
CallerArgs == {<<>>, <<"--mute-audio">>}

\* Options in which the caller's args take the place of the defaults.
LaunchArgs_CallerReplaces(callerArgs) ==
  IF callerArgs = <<>> THEN DefaultArgs ELSE callerArgs

\* `const args = [...this._getDefaultArgs(), ...(launchOptions.args || [])]`,
\* put back into contextOptions after the spread of launchOptions.
LaunchArgs(callerArgs) == DefaultArgs \o callerArgs

\* A launch() that returns early on any manager launched before.
LaunchReturnsEarly_OnceLaunched == isInitialized \/ everLaunched

\* A launch() that never takes the early return.
LaunchReturnsEarly_Never == FALSE

\* BrowserManager.launch, `if (this.isInitialized) return this;`
LaunchReturnsEarly == isInitialized

\* launch() on an initialized manager: returns this at once.
LaunchReturnsExisting(limit) ==
  /\ Len(frames) < limit
  /\ LaunchReturnsEarly
  /\ everLaunched' = TRUE
  /\ prev' = Snapshot
  /\ lastCall' = [op |-> "launch", result |-> "this", error |-> "",
                  discoveryError |-> "", ctx |-> context]
  /\ UNCHANGED <<context, extensionId, isInitialized, frames, created, isOpen,
                 closeCount, browserId, pagesOpened, discoveries, idsOf,
                 lastAccess>>
  /\ UNCHANGED <<extractVars, ctxVars, scanVars, waitVars, fbVars, judgeVars,
                 flagVars, loginVars, panelVars,
                 siteVars, helperVars>>

\* launch() otherwise: builds the options and awaits launchPersistentContext.
LaunchBegins(limit, callerArgs) ==
  /\ Len(frames) < limit
  /\ ~LaunchReturnsEarly
  /\ created < MaxContexts
  /\ everLaunched' = TRUE
  /\ prev' = Snapshot
  /\ lastCall' = PendingCall("launch")
  /\ frames' = Append(frames, [op |-> "launch", pc |-> "creating", ctx |-> 0])
  /\ launchArgs' = LaunchArgs(callerArgs)
  /\ UNCHANGED <<context, extensionId, isInitialized, created, isOpen,
                 closeCount, browserId, pagesOpened, discoveries, idsOf,
                 lastAccess>>
  /\ UNCHANGED <<extractVars, ctxVars, scanVars, waitVars, fbVars, judgeVars,
                 loginVars, panelVars,
                 siteVars, helperVars>>

\* launchPersistentContext resolves: the context is stored and discovery
\* is started on it.
LaunchContextCreated(i, bid) ==
  /\ i \in 1..Len(frames)
  /\ frames[i].op = "launch" /\ frames[i].pc = "creating"
  /\ created < MaxContexts
  /\ LET c == created + 1 IN
       /\ created' = c
       /\ isOpen' = [isOpen EXCEPT ![c] = TRUE]
       /\ browserId' = [browserId EXCEPT ![c] = bid]
       /\ context' = c
       /\ frames' = [frames EXCEPT ![i] = [op |-> "launch", pc |-> "discovering", ctx |-> c]]
       /\ idsOf' = Note(c, extensionId, idsOf)
  /\ discoveries' = discoveries + 1
  /\ UNCHANGED <<extensionId, isInitialized, closeCount, pagesOpened,
                 everLaunched, lastCall, prev, lastAccess>>
  /\ UNCHANGED <<extractVars, ctxVars, scanVars, waitVars, fbVars, judgeVars,
                 flagVars, loginVars, panelVars,
                 siteVars, helperVars>>

\* launchPersistentContext rejects: launch() throws before storing anything.
LaunchCreateFails(i) ==
  /\ i \in 1..Len(frames)
  /\ frames[i].op = "launch" /\ frames[i].pc = "creating"
  /\ frames' = RemoveAt(frames, i)
  /\ lastCall' = [op |-> "launch", result |-> "throw", error |-> "BrowserLaunchError",
                  discoveryError |-> "", ctx |-> 0]
  /\ UNCHANGED <<context, extensionId, isInitialized, created, isOpen,
                 closeCount, browserId, pagesOpened, discoveries, idsOf,
                 everLaunched, prev, lastAccess>>
  /\ UNCHANGED <<extractVars, ctxVars, scanVars, waitVars, fbVars, judgeVars,
                 flagVars, loginVars, panelVars,
                 siteVars, helperVars>>

\* waitForExtensionIdWithFallback returns the identifier it found on the
\* context it was given: the identifier and the flag are stored.
LaunchDiscoverySucceeds(i) ==
  /\ i \in 1..Len(frames)
  /\ frames[i].op = "launch" /\ frames[i].pc = "discovering"
  /\ Truthy(browserId[frames[i].ctx])
  /\ extensionId' = browserId[frames[i].ctx]
  /\ isInitialized' = TRUE
  /\ idsOf' = Note(context, extensionId', idsOf)
  /\ frames' = RemoveAt(frames, i)
  /\ lastCall' = [op |-> "launch", result |-> "this", error |-> "",
                  discoveryError |-> "", ctx |-> frames[i].ctx]
  /\ UNCHANGED <<context, created, isOpen, closeCount, browserId, pagesOpened,
                 discoveries, everLaunched, prev, lastAccess>>
  /\ UNCHANGED <<extractVars, ctxVars, scanVars, waitVars, fbVars, judgeVars,
                 flagVars, loginVars, panelVars,
                 siteVars, helperVars>>

\* A launch() that closes its context and reports an error of its own.
LaunchDiscoveryFails_ClosesAndWraps(i, e) ==
  /\ i \in 1..Len(frames)
  /\ frames[i].op = "launch" /\ frames[i].pc = "discovering"
  /\ frames' = RemoveAt(frames, i)
  /\ isOpen' = [isOpen EXCEPT ![frames[i].ctx] = FALSE]
  /\ closeCount' = [closeCount EXCEPT ![frames[i].ctx] = @ + 1]
  /\ lastCall' = [op |-> "launch", result |-> "throw", error |-> "LaunchFailed",
                  discoveryError |-> e, ctx |-> frames[i].ctx]
  /\ UNCHANGED <<context, extensionId, isInitialized, created,
                 browserId, pagesOpened, discoveries, idsOf,
                 everLaunched, prev, lastAccess>>
  /\ UNCHANGED <<extractVars, ctxVars, scanVars, waitVars, fbVars, judgeVars,
                 flagVars, loginVars, panelVars,
                 siteVars, helperVars>>

\* waitForExtensionIdWithFallback throws `e`: the await rethrows it, the two
\* assignments after it do not run, and nothing closes the context.
LaunchDiscoveryFails(i, e) ==
  /\ i \in 1..Len(frames)
  /\ frames[i].op = "launch" /\ frames[i].pc = "discovering"
  /\ frames' = RemoveAt(frames, i)
  /\ lastCall' = [op |-> "launch", result |-> "throw", error |-> e,
                  discoveryError |-> e, ctx |-> frames[i].ctx]
  /\ UNCHANGED <<context, extensionId, isInitialized, created, isOpen,
                 closeCount, browserId, pagesOpened, discoveries, idsOf,
                 everLaunched, prev, lastAccess>>
  /\ UNCHANGED <<extractVars, ctxVars, scanVars, waitVars, fbVars, judgeVars,
                 flagVars, loginVars, panelVars,
                 siteVars, helperVars>>

\* A close() guarded by the flag instead of the stored context.
CloseHoldsContext_ChecksFlag == isInitialized

\* BrowserManager.close, `if (this.context)`
CloseHoldsContext == context # 0

\* close() with no context stored: nothing happens.
CloseReturnsAtOnce(limit) ==
  /\ Len(frames) < limit
  /\ ~CloseHoldsContext
  /\ prev' = Snapshot
  /\ lastCall' = [op |-> "close", result |-> "noop", error |-> "",
                  discoveryError |-> "", ctx |-> 0]
  /\ UNCHANGED <<context, extensionId, isInitialized, frames, created, isOpen,
                 closeCount, browserId, pagesOpened, discoveries, idsOf,
                 everLaunched, lastAccess>>
  /\ UNCHANGED <<extractVars, ctxVars, scanVars, waitVars, fbVars, judgeVars,
                 flagVars, loginVars, panelVars,
                 siteVars, helperVars>>

\* close() with a context stored: awaits this.context.close().
CloseBegins(limit) ==
  /\ Len(frames) < limit
  /\ CloseHoldsContext
  /\ prev' = Snapshot
  /\ lastCall' = PendingCall("close")
  /\ frames' = Append(frames, [op |-> "close", pc |-> "closing", ctx |-> context])
  /\ UNCHANGED <<context, extensionId, isInitialized, created, isOpen,
                 closeCount, browserId, pagesOpened, discoveries, idsOf,
                 everLaunched, lastAccess>>
  /\ UNCHANGED <<extractVars, ctxVars, scanVars, waitVars, fbVars, judgeVars,
                 flagVars, loginVars, panelVars,
                 siteVars, helperVars>>

\* A close() that forgets to clear the identifier.
FieldsAfterClose_KeepsId ==
  [context |-> 0, extensionId |-> extensionId, isInitialized |-> FALSE]

\* BrowserManager.close, the three assignments after the await.
FieldsAfterClose ==
  [context |-> 0, extensionId |-> NULL, isInitialized |-> FALSE]

\* context.close() resolves: the fields are cleared.
CloseCompletes(i) ==
  /\ i \in 1..Len(frames)
  /\ frames[i].op = "close" /\ frames[i].pc = "closing"
  /\ isOpen' = [isOpen EXCEPT ![frames[i].ctx] = FALSE]
  /\ closeCount' = [closeCount EXCEPT ![frames[i].ctx] = @ + 1]
  /\ context' = FieldsAfterClose.context
  /\ extensionId' = FieldsAfterClose.extensionId
  /\ isInitialized' = FieldsAfterClose.isInitialized
  /\ frames' = RemoveAt(frames, i)
  /\ lastCall' = [op |-> "close", result |-> "closed", error |-> "",
                  discoveryError |-> "", ctx |-> frames[i].ctx]
  /\ UNCHANGED <<created, browserId, pagesOpened, discoveries, idsOf,
                 everLaunched, prev, lastAccess>>
  /\ UNCHANGED <<extractVars, ctxVars, scanVars, waitVars, fbVars, judgeVars,
                 flagVars, loginVars, panelVars,
                 siteVars, helperVars>>

\* A template literal's text for a value: `${null}` is 'null'.
TemplateText(v) == IF v.kind = "str" THEN v.s ELSE <<"n","u","l","l">>

\* A URL built without the '/' between identifier and path.
ExtensionUrl_NoSeparator(path) == Str(Scheme \o TemplateText(extensionId) \o path)

\* BrowserManager.getExtensionPageUrl / getSidePanelUrl, past the check.
ExtensionUrl(path) == Str(Scheme \o TemplateText(extensionId) \o <<"/">> \o path)

\* One accessor call.  Each asserts _ensureInitialized first; newPage and
\* getPages then use this.context, the others return a field or a URL.
Access(name, path) ==
  /\ name \in Accessors
  /\ (name = "newPage" /\ ~ensureInitializedThrows /\ context # 0)
        => pagesOpened < MaxPages
  /\ LET err == IF ensureInitializedThrows THEN "Uninitialized"
                ELSE IF name \in {"newPage", "getPages"} /\ context = 0
                     THEN "TypeError" ELSE ""
         str == CASE err # "" -> NULL
                  [] name = "getExtensionId" -> extensionId
                  [] name = "getSidePanelUrl" -> ExtensionUrl(SidePanelFile)
                  [] name = "getExtensionPageUrl" -> ExtensionUrl(path)
                  [] OTHER -> NULL
     IN
       /\ lastAccess' =
            [name |-> name, error |-> err,
             ctx |-> IF err = "" /\ name \in {"getContext", "newPage", "getPages"}
                     THEN context ELSE 0,
             str |-> str,
             fresh |-> ~everLaunched,
             launching |-> \E k \in 1..Len(frames) : frames[k].op = "launch",
             after |-> lastCall]
       /\ pagesOpened' = IF name = "newPage" /\ err = ""
                         THEN pagesOpened + 1 ELSE pagesOpened
       /\ idsOf' = IF name = "getExtensionId" /\ err = ""
                   THEN Note(context, extensionId, idsOf) ELSE idsOf
  /\ UNCHANGED <<context, extensionId, isInitialized, frames, created, isOpen,
                 closeCount, browserId, discoveries, everLaunched, lastCall,
                 prev>>
  /\ UNCHANGED <<extractVars, ctxVars, scanVars, waitVars, fbVars, judgeVars,
                 flagVars, loginVars, panelVars,
                 siteVars, helperVars>>

\* launch(), close() and the accessors, each launch() and close() awaited
\* before the next is called; accessors may be called at any await.
NextManager ==
  \/ LaunchReturnsExisting(1)
  \/ \E callerArgs \in CallerArgs : LaunchBegins(1, callerArgs)
  \/ \E i \in 1..Len(frames), bid \in BrowserIds : LaunchContextCreated(i, bid)
  \/ \E i \in 1..Len(frames) : LaunchCreateFails(i)
  \/ \E i \in 1..Len(frames) : LaunchDiscoverySucceeds(i)
  \/ \E i \in 1..Len(frames), e \in DiscoveryErrors : LaunchDiscoveryFails(i, e)
  \/ CloseReturnsAtOnce(1)
  \/ CloseBegins(1)
  \/ \E i \in 1..Len(frames) : CloseCompletes(i)
  \/ \E name \in Accessors, path \in PagePaths : Access(name, path)

InitManager == ExtractIdle /\ CtxEmpty /\ ScanIdle /\ WaitIdle /\ MgrInit /\ FbIdle /\ JudgeIdle
  /\ FlagsIdle /\ LoginIdle /\ PanelIdle /\ SiteIdle /\ HelperIdle

SpecManager == InitManager /\ [][NextManager]_vars

MaxCalls == 3   \* launch() and close() calls in progress at one time

\* launch() and close() called without awaiting the calls before them: a
\* call may be made at any await of another, and the awaits resolve in any
\* order.  Discovery finds an identifier only on a context still open.
NextOverlap ==
  \/ LaunchReturnsExisting(MaxCalls)
  \/ \E callerArgs \in CallerArgs : LaunchBegins(MaxCalls, callerArgs)
  \/ \E i \in 1..Len(frames), bid \in BrowserIds : LaunchContextCreated(i, bid)
  \/ \E i \in 1..Len(frames) : LaunchCreateFails(i)
  \/ \E i \in 1..Len(frames) :
        /\ frames[i].op = "launch" /\ frames[i].pc = "discovering"
        /\ isOpen[frames[i].ctx]
        /\ LaunchDiscoverySucceeds(i)
  \/ \E i \in 1..Len(frames), e \in DiscoveryErrors : LaunchDiscoveryFails(i, e)
  \/ CloseReturnsAtOnce(MaxCalls)
  \/ CloseBegins(MaxCalls)
  \/ \E i \in 1..Len(frames) : CloseCompletes(i)

SpecOverlap == InitManager /\ [][NextOverlap]_vars

----------------------------------------------------------------------------
(* The specifications of the two pure functions. *)

InitExtract ==
  /\ url \in UrlInputs /\ extracted = UNSET
  /\ CtxEmpty /\ ScanIdle /\ WaitIdle /\ MgrInit /\ FbIdle /\ JudgeIdle
  /\ FlagsIdle /\ LoginIdle /\ PanelIdle /\ SiteIdle /\ HelperIdle

NextExtract == ExtractCall

SpecExtract == InitExtract /\ [][NextExtract]_vars

InitScan ==
  /\ \E a \in 0..MaxEntries : \E b \in 0..(MaxEntries - a) :
       \E c \in 0..(MaxEntries - a - b) :
         /\ serviceWorkers \in [1..a -> CtxUrls]
         /\ backgroundPages \in [1..b -> CtxUrls]
         /\ pages \in [1..c -> CtxUrls]
  /\ ExtractIdle /\ ScanIdle /\ WaitIdle /\ MgrInit /\ FbIdle /\ JudgeIdle
  /\ FlagsIdle /\ LoginIdle /\ PanelIdle /\ SiteIdle /\ HelperIdle

NextScan == ScanCall

SpecScan == InitScan /\ [][NextScan]_vars

----------------------------------------------------------------------------
(* One call of waitForExtensionId.  Time is a clock in units; a timer fires *)
(* in the instant it is due, and the instant does not end before every due  *)
(* timer has fired.  Each action is one task of the event loop together    *)
(* with the promise reactions it triggers: the reaction of Promise.race,    *)
(* and the code after the await when the race settles.                      *)

MaxTimeout == 3   \* largest options.timeout tried
MaxPoll    == 2   \* largest options.pollInterval tried
MaxStart   == 1   \* latest instant at which the call is made
MaxEnv     == 2   \* changes the browser makes to the context in a run

Horizon == MaxStart + MaxTimeout + MaxPoll + 1

\* A race whose last settlement wins.
RaceAfter_LastWins(p, v) == v

\* Promise.race([eventPromise, pollingPromise, timeoutPromise]): the first
\* settlement is kept, a later one changes nothing.
RaceAfter(p, v) == IF p = PENDING THEN v ELSE p

\* resolve() on a settled promise returns without throwing, as does
\* context.off for a handler that is not subscribed.
ResolveSettledThrows == FALSE

\* A polling loop that runs one cycle too long.
PollLoopContinues_OneMore(t, start, to) == t - start <= to

\* `while (Date.now() - startTime < timeout)`
PollLoopContinues(t, start, to) == t - start < to

\* A polling loop that sleeps one unit too long.
NextPollDue_Late(t, pi) == t + pi + 1

\* `await new Promise(resolve => setTimeout(resolve, pollInterval))`
NextPollDue(t, pi) == t + pi

\* A timeout armed one unit early.
TimeoutDue_Early(start, to) == start + to - 1

\* A timeout armed one unit late.
TimeoutDue_Late(start, to) == start + to + 1

\* `setTimeout(() => resolve(null), timeout)`, armed when the call starts.
TimeoutDue(start, to) == start + to

\* A constituent promise of the race has just resolved to v, and evp is the
\* event promise by then.  If the call is still awaiting the race, the race
\* settles to v and the call resumes: resolveFromEvent(null), return.  If
\* not, the settlement is one more attempt on a settled race.
Settle(v, evp) ==
  /\ racePromise' = RaceAfter(racePromise, v)
  /\ IF racePromise = PENDING
     THEN /\ eventPromise' = (IF evp = PENDING THEN NULL ELSE evp)
          /\ returned' = racePromise'
          /\ returnTime' = now
          /\ outcomes' = outcomes + 1
          /\ waitPc' = "returned"
     ELSE /\ eventPromise' = evp
          /\ UNCHANGED <<returned, returnTime, outcomes, waitPc>>
  /\ lateSettles' = lateSettles + 1
  /\ raised' = (raised \/ ResolveSettledThrows)

\* The call is made: the listener is subscribed, the polling loop runs its
\* first cycle, the timeout is armed, and the race is awaited.
WaitStart(to, pi) ==
  /\ waitPc = "idle"
  /\ LET scan  == getExtensionId(serviceWorkers, backgroundPages, pages)
         first == IF PollLoopContinues(now, now, to)
                  THEN (IF Truthy(scan) THEN scan ELSE PENDING)
                  ELSE NULL
     IN
       /\ startTime' = now
       /\ timeout' = to
       /\ pollInterval' = pi
       /\ listening' = TRUE
       /\ pollingPromise' = first
       /\ pollTimer' = IF first = PENDING THEN NextPollDue(now, pi) ELSE NoTimer
       /\ timeoutTimer' = TimeoutDue(now, to)
       /\ matchSeen' = Truthy(scan)
       /\ seen' = [id |-> scan, at |-> now,
                   tick |-> IF PollLoopContinues(now, now, to) THEN now ELSE NoTimer]
       /\ IF first = PENDING
          THEN /\ waitPc' = "racing"
               /\ UNCHANGED <<eventPromise, racePromise, returned, returnTime,
                              outcomes, lateSettles, raised>>
          ELSE Settle(first, eventPromise)
  /\ UNCHANGED <<now, envSteps, timeoutPromise>>
  /\ UNCHANGED <<extractVars, ctxVars, scanVars, mgrVars, fbVars, judgeVars,
                 flagVars, loginVars, panelVars,
                 siteVars, helperVars>>

\* The polling loop's timer fires: the loop condition, then a scan.
PollFire ==
  /\ pollTimer = now
  /\ LET scan == getExtensionId(serviceWorkers, backgroundPages, pages) IN
       IF PollLoopContinues(now, startTime, timeout) /\ ~Truthy(scan)
       THEN /\ pollTimer' = NextPollDue(now, pollInterval)
            /\ UNCHANGED <<pollingPromise, eventPromise, racePromise, returned,
                           returnTime, outcomes, lateSettles, raised, waitPc>>
       ELSE /\ pollTimer' = NoTimer
            /\ pollingPromise' =
                 (IF PollLoopContinues(now, startTime, timeout) THEN scan ELSE NULL)
            /\ Settle(pollingPromise', eventPromise)
  /\ UNCHANGED <<now, envSteps, startTime, timeout, pollInterval,
                 timeoutPromise, listening, timeoutTimer, matchSeen, seen>>
  /\ UNCHANGED <<extractVars, ctxVars, scanVars, mgrVars, fbVars, judgeVars,
                 flagVars, loginVars, panelVars,
                 siteVars, helperVars>>

\* The timeout's timer fires: timeoutPromise resolves to null.
TimeoutFire ==
  /\ timeoutTimer = now
  /\ timeoutTimer' = NoTimer
  /\ timeoutPromise' = NULL
  /\ Settle(NULL, eventPromise)
  /\ UNCHANGED <<now, envSteps, startTime, timeout, pollInterval,
                 pollingPromise, listening, pollTimer, matchSeen, seen>>
  /\ UNCHANGED <<extractVars, ctxVars, scanVars, mgrVars, fbVars, judgeVars,
                 flagVars, loginVars, panelVars,
                 siteVars, helperVars>>

\* The clock advances, once every timer due in this instant has fired.
Tick ==
  /\ pollTimer # now /\ timeoutTimer # now
  /\ now < (IF waitPc = "idle" THEN MaxStart ELSE Horizon)
  /\ now' = now + 1
  /\ UNCHANGED <<envSteps, waitPc, startTime, timeout, pollInterval,
                 eventPromise, pollingPromise, timeoutPromise, racePromise,
                 listening, pollTimer, timeoutTimer, returned, returnTime,
                 outcomes, lateSettles, raised, matchSeen, seen>>
  /\ UNCHANGED <<extractVars, ctxVars, scanVars, mgrVars, fbVars, judgeVars,
                 flagVars, loginVars, panelVars,
                 siteVars, helperVars>>

\* What the history variable records after a change of the context.
MatchSeenAfter(sw, bg, pg) ==
  matchSeen \/ (waitPc = "racing" /\ Truthy(getExtensionId(sw, bg, pg)))

\* What a scan would return after a change of the context, since which
\* instant, and the polling tick that comes first at or after that instant;
\* recorded while the call awaits the race.
SeenAfter(sw, bg, pg) ==
  LET scan == getExtensionId(sw, bg, pg) IN
    IF waitPc = "racing" /\ scan # seen.id
    THEN [id |-> scan, at |-> now, tick |-> pollTimer]
    ELSE seen

\* A handler that takes every worker for the extension's.
HandlerMatches_Always(id) == TRUE

\* The handler's test of what extractIdFromUrl gave it: `if (id)`
HandlerMatches(id) == Truthy(id)

\* The browser starts a service worker at `u` and emits 'serviceworker':
\* the handler, if subscribed, extracts the identifier and, if there is
\* one, unsubscribes and resolves the event promise.
WorkerAppears(u) ==
  /\ envSteps < MaxEnv
  /\ envSteps' = envSteps + 1
  /\ serviceWorkers' = Append(serviceWorkers, u)
  /\ matchSeen' = MatchSeenAfter(serviceWorkers', backgroundPages, pages)
  /\ seen' = SeenAfter(serviceWorkers', backgroundPages, pages)
  /\ LET id == extractIdFromUrl(Str(u)) IN
       IF listening /\ HandlerMatches(id)
       THEN /\ listening' = FALSE
            /\ IF eventPromise = PENDING
               THEN Settle(id, id)
               ELSE /\ lateSettles' = lateSettles + 1
                    /\ raised' = (raised \/ ResolveSettledThrows)
                    /\ UNCHANGED <<eventPromise, racePromise, returned,
                                   returnTime, outcomes, waitPc>>
       ELSE UNCHANGED <<listening, eventPromise, racePromise, returned,
                        returnTime, outcomes, waitPc, lateSettles, raised>>
  /\ UNCHANGED <<now, startTime, timeout, pollInterval, pollingPromise,
                 timeoutPromise, pollTimer, timeoutTimer>>
  /\ UNCHANGED <<extractVars, backgroundPages, pages, scanVars, mgrVars, fbVars, judgeVars,
                 flagVars, loginVars, panelVars,
                 siteVars, helperVars>>

\* The changes of the context that emit no event the call listens to.
QuietChange ==
  /\ envSteps < MaxEnv
  /\ envSteps' = envSteps + 1
  /\ matchSeen' = MatchSeenAfter(serviceWorkers', backgroundPages', pages')
  /\ seen' = SeenAfter(serviceWorkers', backgroundPages', pages')
  /\ UNCHANGED <<now, waitPc, startTime, timeout, pollInterval,
                 eventPromise, pollingPromise, timeoutPromise, racePromise,
                 listening, pollTimer, timeoutTimer, returned, returnTime,
                 outcomes, lateSettles, raised>>
  /\ UNCHANGED <<extractVars, scanVars, mgrVars, fbVars, judgeVars,
                 flagVars, loginVars, panelVars,
                 siteVars, helperVars>>

BackgroundPageAppears(u) ==
  /\ backgroundPages' = Append(backgroundPages, u)
  /\ UNCHANGED <<serviceWorkers, pages>>
  /\ QuietChange

PageOpens(u) ==
  /\ pages' = Append(pages, u)
  /\ UNCHANGED <<serviceWorkers, backgroundPages>>
  /\ QuietChange

WorkerStops(i) ==
  /\ i \in 1..Len(serviceWorkers)
  /\ serviceWorkers' = RemoveAt(serviceWorkers, i)
  /\ UNCHANGED <<backgroundPages, pages>>
  /\ QuietChange

PageCloses(i) ==
  /\ i \in 1..Len(pages)
  /\ pages' = RemoveAt(pages, i)
  /\ UNCHANGED <<serviceWorkers, backgroundPages>>
  /\ QuietChange

NextWait ==
  \/ \E to \in 0..MaxTimeout, pi \in 1..MaxPoll : WaitStart(to, pi)
  \/ PollFire
  \/ TimeoutFire
  \/ Tick
  \/ \E u \in CtxUrls : WorkerAppears(u)
  \/ \E u \in CtxUrls : BackgroundPageAppears(u)
  \/ \E u \in CtxUrls : PageOpens(u)
  \/ \E i \in 1..Len(serviceWorkers) : WorkerStops(i)
  \/ \E i \in 1..Len(pages) : PageCloses(i)

InitWait == ExtractIdle /\ CtxEmpty /\ ScanIdle /\ WaitIdle /\ MgrInit /\ FbIdle /\ JudgeIdle
  /\ FlagsIdle /\ LoginIdle /\ PanelIdle /\ SiteIdle /\ HelperIdle

SpecWait == InitWait /\ [][NextWait]_vars

----------------------------------------------------------------------------
(* One call of waitForExtensionIdWithFallback.  Each action is one await   *)
(* of the call, or one change the browser makes to the context meanwhile.  *)
(* A waitForExtensionId call is taken by what it returns: null, or the     *)
(* identifier a scan of the context finds when it returns.                 *)

MaxFbEnv == 2     \* changes the browser makes to the context in a run
MaxFbTimeout == 2 \* largest options.timeout tried, in units of 1000 ms

GotoTimeout == 10 \* goto(..., { timeout: 10000 }), in units of 1000 ms
SettleDelay == 2  \* waitForTimeout(2000), in units of 1000 ms

\* The clock of this call counts ticks of half a unit, so that half of any
\* timeout is a whole number of ticks, as `timeout / 2` is exact.
Ticks(units) == 2 * units

\* A split that hands each attempt the whole timeout.
Half_Whole(to) == Ticks(to)

\* `timeout / 2`, the timeout given to each waitForExtensionId, in ticks.
Half(to) == Ticks(to) \div 2

\* How long the trigger navigation may take: it resolves at once or after
\* a while; it rejects at once or when its timeout is reached.
GotoResolveWaits == {0, 1}
GotoRejectWaits == {0, Ticks(GotoTimeout)}

\* The clock after d ticks spent in an attempt, or outside one.
Spend(d, inAttempt) ==
  [fbClock EXCEPT !.elapsed = @ + d,
                  !.inAttempts = IF inAttempt THEN @ + d ELSE @]

\* How long a waitForExtensionId given `budget` takes to return v: null
\* comes when the budget is spent, an identifier within it, and none
\* from a budget of zero, with which the polling loop never scans.
AttemptTakes(v, d, budget) ==
  /\ d \in 0..budget
  /\ v = NULL => d = budget
  /\ Truthy(v) => budget > 0

AboutBlank == <<"a","b","o","u","t",":","b","l","a","n","k">>

\* options.triggerUrl, an ordinary web page.
TriggerUrls == {UrlWeb}

\* What one waitForExtensionId call may return on this context.
AttemptMayReturn(v) ==
  \/ v = NULL
  \/ Truthy(v) /\ v = getExtensionId(serviceWorkers, backgroundPages, pages)

\* A fallback that opens the trigger page whatever the first attempt gave.
TriggerNeeded_Always(v) == TRUE

\* `if (!extensionId)` after the first attempt.
TriggerNeeded(v) == ~Truthy(v)

\* How the call ends once the trigger phase is over: the exception in
\* flight if there is one, else `if (!extensionId) throw new Error(...)`,
\* else `return extensionId`.
FallbackOutcome(id, thrown) ==
  IF thrown # "" THEN [kind |-> "error", v |-> NULL, error |-> thrown]
  ELSE IF ~Truthy(id)
       THEN [kind |-> "error", v |-> NULL, error |-> "DiscoveryTimeout"]
       ELSE [kind |-> "value", v |-> id, error |-> ""]

\* A trigger phase that closes the page at the end of `try`, not in
\* `finally`.
ClosesTempPage_OnlyOnSuccess(thrown) == thrown = ""

\* `finally { await tempPage.close() }` runs however `try` was left.
ClosesTempPage(thrown) == TRUE

\* The call is made; the first waitForExtensionId is awaited.
FallbackCall(to) ==
  /\ fbPc = "idle"
  /\ fbClock' = [timeout |-> to, elapsed |-> 0, inAttempts |-> 0,
                  budgets |-> <<Half(to)>>]
  /\ fbPc' = "attempt1"
  /\ entryPages' = pages
  /\ UNCHANGED <<fbId, fbThrown, fbResult, tempPage, tempIdx, fbEnv,
                 attempts, newPageCalls, gotoCalls, envOpened>>
  /\ UNCHANGED <<extractVars, ctxVars, scanVars, waitVars, mgrVars, judgeVars,
                 flagVars, loginVars, panelVars,
                 siteVars, helperVars>>

\* The first attempt returns v: the call returns it, or goes on to
\* `await context.newPage()`.
FirstAttemptReturns(v, d) ==
  /\ fbPc = "attempt1"
  /\ AttemptMayReturn(v)
  /\ AttemptTakes(v, d, fbClock.budgets[1])
  /\ fbClock' = Spend(d, TRUE)
  /\ fbId' = v
  /\ attempts' = Append(attempts, v)
  /\ IF TriggerNeeded(v)
     THEN /\ fbPc' = "opening"
          /\ newPageCalls' = newPageCalls + 1
          /\ UNCHANGED fbResult
     ELSE /\ fbPc' = "done"
          /\ fbResult' = FallbackOutcome(v, "")
          /\ UNCHANGED newPageCalls
  /\ UNCHANGED <<fbThrown, tempPage, tempIdx, fbEnv, gotoCalls,
                 entryPages, envOpened>>
  /\ UNCHANGED <<extractVars, ctxVars, scanVars, waitVars, mgrVars, judgeVars,
                 flagVars, loginVars, panelVars,
                 siteVars, helperVars>>

\* context.newPage() resolves: the page is open at about:blank, and
\* tempPage.goto(triggerUrl) is called.
NewPageResolves ==
  /\ fbPc = "opening"
  /\ pages' = Append(pages, AboutBlank)
  /\ tempIdx' = Len(pages) + 1
  /\ tempPage' = "open"
  /\ gotoCalls' = gotoCalls + 1
  /\ fbPc' = "navigating"
  /\ UNCHANGED <<fbClock, fbId, fbThrown, fbResult, fbEnv, attempts, newPageCalls,
                 entryPages, envOpened>>
  /\ UNCHANGED <<extractVars, serviceWorkers, backgroundPages, scanVars,
                 waitVars, mgrVars, judgeVars,
                 flagVars, loginVars, panelVars,
                 siteVars, helperVars>>

\* context.newPage() rejects; the await is outside `try`, the error leaves
\* the call.
NewPageRejects ==
  /\ fbPc = "opening"
  /\ fbPc' = "done"
  /\ fbResult' = FallbackOutcome(fbId, "TriggerPageError")
  /\ UNCHANGED <<fbClock, fbId, fbThrown, tempPage, tempIdx, fbEnv, attempts,
                 newPageCalls, gotoCalls, entryPages, envOpened>>
  /\ UNCHANGED <<extractVars, ctxVars, scanVars, waitVars, mgrVars, judgeVars,
                 flagVars, loginVars, panelVars,
                 siteVars, helperVars>>

\* goto resolves with the page at u; waitForTimeout(2000) is awaited.
GotoResolves(u, d) ==
  /\ fbPc = "navigating"
  /\ fbClock' = Spend(d, FALSE)
  /\ pages' = [pages EXCEPT ![tempIdx] = u]
  /\ fbPc' = "settling"
  /\ UNCHANGED <<fbId, fbThrown, fbResult, tempPage, tempIdx, fbEnv,
                 attempts, newPageCalls, gotoCalls, entryPages, envOpened>>
  /\ UNCHANGED <<extractVars, serviceWorkers, backgroundPages, scanVars,
                 waitVars, mgrVars, judgeVars,
                 flagVars, loginVars, panelVars,
                 siteVars, helperVars>>

\* goto rejects (navigation error, or its 10000 ms timeout): control
\* leaves `try` for `finally` with the error in flight.
GotoRejects(d) ==
  /\ fbPc = "navigating"
  /\ fbClock' = Spend(d, FALSE)
  /\ fbThrown' = "TriggerNavigationError"
  /\ fbPc' = "closing"
  /\ UNCHANGED <<fbId, fbResult, tempPage, tempIdx, fbEnv, attempts,
                 newPageCalls, gotoCalls, entryPages, envOpened>>
  /\ UNCHANGED <<extractVars, ctxVars, scanVars, waitVars, mgrVars, judgeVars,
                 flagVars, loginVars, panelVars,
                 siteVars, helperVars>>

\* waitForTimeout(2000) resolves; the second waitForExtensionId is awaited,
\* still inside `try`.
SettleDelayElapses ==
  /\ fbPc = "settling"
  /\ fbClock' = [Spend(Ticks(SettleDelay), FALSE) EXCEPT
                    !.budgets = Append(@, Half(fbClock.timeout))]
  /\ fbPc' = "attempt2"
  /\ UNCHANGED <<fbId, fbThrown, fbResult, tempPage, tempIdx, fbEnv,
                 attempts, newPageCalls, gotoCalls, entryPages, envOpened>>
  /\ UNCHANGED <<extractVars, ctxVars, scanVars, waitVars, mgrVars, judgeVars,
                 flagVars, loginVars, panelVars,
                 siteVars, helperVars>>

\* The second attempt returns v; control enters `finally`.
SecondAttemptReturns(v, d) ==
  /\ fbPc = "attempt2"
  /\ AttemptMayReturn(v)
  /\ AttemptTakes(v, d, fbClock.budgets[2])
  /\ fbClock' = Spend(d, TRUE)
  /\ fbId' = v
  /\ attempts' = Append(attempts, v)
  /\ fbPc' = "closing"
  /\ UNCHANGED <<fbThrown, fbResult, tempPage, tempIdx, fbEnv,
                 newPageCalls, gotoCalls, entryPages, envOpened>>
  /\ UNCHANGED <<extractVars, ctxVars, scanVars, waitVars, mgrVars, judgeVars,
                 flagVars, loginVars, panelVars,
                 siteVars, helperVars>>

\* `finally`: tempPage.close() resolves, and the call ends by rethrowing,
\* throwing or returning.
FinallyDone ==
  /\ fbPc = "closing"
  /\ IF ClosesTempPage(fbThrown)
     THEN /\ pages' = RemoveAt(pages, tempIdx)
          /\ tempPage' = "closed"
          /\ tempIdx' = 0
     ELSE UNCHANGED <<pages, tempPage, tempIdx>>
  /\ fbPc' = "done"
  /\ fbResult' = FallbackOutcome(fbId, fbThrown)
  /\ UNCHANGED <<fbClock, fbId, fbThrown, fbEnv, attempts, newPageCalls, gotoCalls,
                 entryPages, envOpened>>
  /\ UNCHANGED <<extractVars, serviceWorkers, backgroundPages, scanVars,
                 waitVars, mgrVars, judgeVars,
                 flagVars, loginVars, panelVars,
                 siteVars, helperVars>>

\* The browser starts a service worker at u.
FbWorkerAppears(u) ==
  /\ fbPc # "done" /\ fbEnv < MaxFbEnv
  /\ fbEnv' = fbEnv + 1
  /\ serviceWorkers' = Append(serviceWorkers, u)
  /\ UNCHANGED <<fbClock, fbPc, fbId, fbThrown, fbResult, tempPage, tempIdx,
                 attempts, newPageCalls, gotoCalls, entryPages, envOpened>>
  /\ UNCHANGED <<extractVars, backgroundPages, pages, scanVars, waitVars,
                 mgrVars, judgeVars,
                 flagVars, loginVars, panelVars,
                 siteVars, helperVars>>

\* The browser opens a page at u by itself (an extension page, a popup).
FbPageOpens(u) ==
  /\ fbPc # "done" /\ fbEnv < MaxFbEnv
  /\ fbEnv' = fbEnv + 1
  /\ pages' = Append(pages, u)
  /\ envOpened' = IF fbPc = "idle" THEN envOpened ELSE Append(envOpened, u)
  /\ UNCHANGED <<fbClock, fbPc, fbId, fbThrown, fbResult, tempPage, tempIdx,
                 attempts, newPageCalls, gotoCalls, entryPages>>
  /\ UNCHANGED <<extractVars, serviceWorkers, backgroundPages, scanVars,
                 waitVars, mgrVars, judgeVars,
                 flagVars, loginVars, panelVars,
                 siteVars, helperVars>>

NextFallback ==
  \/ \E to \in 0..MaxFbTimeout : FallbackCall(to)
  \/ \E v \in BrowserIds, d \in 0..Half(MaxFbTimeout) : FirstAttemptReturns(v, d)
  \/ NewPageResolves
  \/ NewPageRejects
  \/ \E u \in TriggerUrls, d \in GotoResolveWaits : GotoResolves(u, d)
  \/ \E d \in GotoRejectWaits : GotoRejects(d)
  \/ SettleDelayElapses
  \/ \E v \in BrowserIds, d \in 0..Half(MaxFbTimeout) : SecondAttemptReturns(v, d)
  \/ FinallyDone
  \/ \E u \in CtxUrls : FbWorkerAppears(u)
  \/ \E u \in CtxUrls : FbPageOpens(u)

InitFallback == ExtractIdle /\ CtxEmpty /\ ScanIdle /\ WaitIdle /\ MgrInit /\ FbIdle /\ JudgeIdle
  /\ FlagsIdle /\ LoginIdle /\ PanelIdle /\ SiteIdle /\ HelperIdle

SpecFallback == InitFallback /\ [][NextFallback]_vars

----------------------------------------------------------------------------
(* One call of ExtensionSidePanelPage.waitForLoginSuccess on a page that   *)
(* may behave in any way.  Each action is one await of the call: a probe   *)
(* ends by firing, by its timeout or by an error, after some time.  Time   *)
(* is counted in units of 1000 ms.                                         *)

NavTimeout    == 3   \* waitForUrlContains(urlContains, 3000)
MarkerTimeout == 2   \* waitForVisible(this.successIndicator, 2000)
FormTimeout   == 2   \* waitForHidden(this.loginForm, 2000)
MaxReadWait   == 2   \* longest a locator.inputValue() is let to take

SignalOrder == <<"navigation", "marker", "form", "fields">>

\* The timeout the call passes to the wait of a signal.
ProbeTimeout(sig) ==
  CASE sig = "navigation" -> NavTimeout
    [] sig = "marker"     -> MarkerTimeout
    [] sig = "form"       -> FormTimeout

\* locator.inputValue() is called with no timeout of the call's own;
\* how long it waits for the field is for the browser to say.
ReadWaits == 0..MaxReadWait

\* A waterfall that goes from the navigation check to the form check.
Successor_SkipsMarker(sig) ==
  CASE sig = "navigation" -> "form"
    [] sig = "marker"     -> "form"
    [] sig = "form"       -> "fields"

\* The signal checked when `sig` has not fired.
Successor(sig) ==
  CASE sig = "navigation" -> "marker"
    [] sig = "marker"     -> "form"
    [] sig = "form"       -> "fields"

\* Whether an error raised by the probe of `sig` leaves waitForLoginSuccess:
\* waitForUrlContains catches its own, the visible and hidden waits are in
\* try/catch, the two field reads are in none.
ErrorEscapes(sig) == sig = "fields"

\* `usernameValue === '' && passwordValue === ''`
FieldsEmpty(u, p) == u = Str(<<>>) /\ p = Str(<<>>)

FieldValues == {Str(<<>>), Str(<<"x">>)}

\* The call is made: waitForUrlContains is awaited.
JudgeCall ==
  /\ judgePc = "idle"
  /\ judgePc' = "navigation"
  /\ evaluated' = <<"navigation">>
  /\ UNCHANGED <<judgeResult, fired, probeErrors, usernameValue,
                 passwordValue, judgeElapsed>>
  /\ UNCHANGED <<extractVars, ctxVars, scanVars, waitVars, mgrVars, fbVars,
                 flagVars, loginVars, panelVars,
                 siteVars, helperVars>>

\* The wait of one of the first three signals ends after d units: "fires"
\* (the call returns true), "timeout" or "error" (the next signal's probe
\* is awaited; the first of the two field reads for the last signal).
WaitProbeEnds(sig, o, d) ==
  /\ judgePc = sig
  /\ sig \in {"navigation", "marker", "form"}
  /\ d \in 0..ProbeTimeout(sig)
  /\ o = "timeout" => d = ProbeTimeout(sig)
  /\ judgeElapsed' = judgeElapsed + d
  /\ probeErrors' = IF o = "error" THEN probeErrors \cup {sig} ELSE probeErrors
  /\ IF o = "fires"
     THEN /\ fired' = fired \cup {sig}
          /\ judgeResult' = "true"
          /\ judgePc' = "done"
          /\ UNCHANGED evaluated
     ELSE IF o = "error" /\ ErrorEscapes(sig)
     THEN /\ judgeResult' = "throw"
          /\ judgePc' = "done"
          /\ UNCHANGED <<fired, evaluated>>
     ELSE /\ evaluated' = Append(evaluated, Successor(sig))
          /\ judgePc' = IF Successor(sig) = "fields" THEN "username"
                        ELSE Successor(sig)
          /\ UNCHANGED <<fired, judgeResult>>
  /\ UNCHANGED <<usernameValue, passwordValue>>
  /\ UNCHANGED <<extractVars, ctxVars, scanVars, waitVars, mgrVars, fbVars,
                 flagVars, loginVars, panelVars,
                 siteVars, helperVars>>

\* getUsernameValue() ends after d units: with the field's value v, or
\* with an error, which nothing in the call catches.
UsernameReadEnds(o, v, d) ==
  /\ judgePc = "username"
  /\ judgeElapsed' = judgeElapsed + d
  /\ IF o = "error"
     THEN /\ probeErrors' = probeErrors \cup {"fields"}
          /\ judgeResult' = (IF ErrorEscapes("fields") THEN "throw" ELSE "false")
          /\ judgePc' = "done"
          /\ UNCHANGED usernameValue
     ELSE /\ usernameValue' = v
          /\ judgePc' = "password"
          /\ UNCHANGED <<probeErrors, judgeResult>>
  /\ UNCHANGED <<evaluated, fired, passwordValue>>
  /\ UNCHANGED <<extractVars, ctxVars, scanVars, waitVars, mgrVars, fbVars,
                 flagVars, loginVars, panelVars,
                 siteVars, helperVars>>

\* getPasswordValue() ends after d units: with the field's value v, and
\* the call returns whether both values are empty; or with an error.
PasswordReadEnds(o, v, d) ==
  /\ judgePc = "password"
  /\ judgeElapsed' = judgeElapsed + d
  /\ judgePc' = "done"
  /\ IF o = "error"
     THEN /\ probeErrors' = probeErrors \cup {"fields"}
          /\ judgeResult' = (IF ErrorEscapes("fields") THEN "throw" ELSE "false")
          /\ UNCHANGED <<passwordValue, fired>>
     ELSE /\ passwordValue' = v
          /\ fired' = IF FieldsEmpty(usernameValue, v)
                      THEN fired \cup {"fields"} ELSE fired
          /\ judgeResult' = (IF FieldsEmpty(usernameValue, v)
                             THEN "true" ELSE "false")
          /\ UNCHANGED probeErrors
  /\ UNCHANGED <<evaluated, usernameValue>>
  /\ UNCHANGED <<extractVars, ctxVars, scanVars, waitVars, mgrVars, fbVars,
                 flagVars, loginVars, panelVars,
                 siteVars, helperVars>>

NextJudge ==
  \/ JudgeCall
  \/ \E sig \in {"navigation", "marker", "form"},
        o \in {"fires", "timeout", "error"},
        d \in 0..NavTimeout : WaitProbeEnds(sig, o, d)
  \/ \E o \in {"value", "error"}, v \in FieldValues, d \in ReadWaits :
        UsernameReadEnds(o, v, d)
  \/ \E o \in {"value", "error"}, v \in FieldValues, d \in ReadWaits :
        PasswordReadEnds(o, v, d)

InitJudge == ExtractIdle /\ CtxEmpty /\ ScanIdle /\ WaitIdle /\ MgrInit /\ FbIdle /\ JudgeIdle
  /\ FlagsIdle /\ LoginIdle /\ PanelIdle /\ SiteIdle /\ HelperIdle

SpecJudge == InitJudge /\ [][NextJudge]_vars

----------------------------------------------------------------------------
(* login() of the two page objects: the steps that fill and submit the     *)
(* form, the success detector, and the catch around both.                  *)

\* ExtensionSidePanelPage.login: the awaits before the success detector.
SidePanelSteps ==
  <<"fillUsername", "fillPassword", "clickLogin", "waitForTimeout">>

\* ExternalSitePage.login: the awaits before the success detector, for a
\* multi-step form (username, Next, password, submit) and a single-step one.
ExternalSteps(multi) ==
  IF multi
  THEN <<"fillUsername", "clickLogin", "waitForTimeout", "fillPassword",
         "clickLogin">>
  ELSE <<"fillUsername", "fillPassword", "clickLogin">>

LoginSteps ==
  IF loginPage = "sidePanel" THEN SidePanelSteps ELSE ExternalSteps(multiStep)

\* What login() completes with when a step or the detector raised err.
SidePanelCatch_Rethrows(err) == "throw"

\* ExtensionSidePanelPage.login: `catch (error) { return false; }`
SidePanelCatch(err) == "false"

\* ExternalSitePage.login: `catch (error) { return false; }`
ExternalCatch(err) == "false"

LoginCatch(err) ==
  IF loginPage = "sidePanel" THEN SidePanelCatch(err) ELSE ExternalCatch(err)

\* login() is called on one of the two page objects; the external site's
\* form is multi-step or not, as its configuration says.
LoginCall(page, multi) ==
  /\ loginPc = "idle"
  /\ page = "sidePanel" => ~multi
  /\ loginPc' = "steps"
  /\ loginPage' = page
  /\ multiStep' = multi
  /\ UNCHANGED <<loginTrace, loginFailedAt, detectorResult, loginResult>>
  /\ UNCHANGED <<extractVars, ctxVars, scanVars, waitVars, mgrVars, fbVars,
                 judgeVars, flagVars, panelVars,
                 siteVars, helperVars>>

\* The next step of the form is awaited and completes; after the last one
\* the success detector is called.
StepResolves ==
  /\ loginPc = "steps"
  /\ loginTrace' = Append(loginTrace, LoginSteps[Len(loginTrace) + 1])
  /\ loginPc' = IF Len(loginTrace') = Len(LoginSteps) THEN "judging"
                ELSE "steps"
  /\ UNCHANGED <<loginPage, multiStep, loginFailedAt, detectorResult,
                 loginResult>>
  /\ UNCHANGED <<extractVars, ctxVars, scanVars, waitVars, mgrVars, fbVars,
                 judgeVars, flagVars, panelVars,
                 siteVars, helperVars>>

\* The next step of the form raises (the element never becomes visible,
\* the page is closed): the catch decides what login() completes with.
StepRejects ==
  /\ loginPc = "steps"
  /\ loginFailedAt' = LoginSteps[Len(loginTrace) + 1]
  /\ loginResult' = LoginCatch(loginFailedAt')
  /\ loginPc' = "done"
  /\ UNCHANGED <<loginPage, multiStep, loginTrace, detectorResult>>
  /\ UNCHANGED <<extractVars, ctxVars, scanVars, waitVars, mgrVars, fbVars,
                 judgeVars, flagVars, panelVars,
                 siteVars, helperVars>>

\* ExtensionSidePanelPage.waitForLoginSuccess runs, a step at a time, on
\* behalf of login().
SidePanelDetectorStep ==
  /\ loginPc = "judging" /\ loginPage = "sidePanel"
  /\ NextJudge

\* ExtensionSidePanelPage.waitForLoginSuccess has completed, with a
\* boolean or with an error.
SidePanelDetectorEnds ==
  /\ loginPc = "judging" /\ loginPage = "sidePanel"
  /\ judgePc = "done"
  /\ detectorResult' = judgeResult
  /\ loginPc' = "detected"
  /\ UNCHANGED <<loginPage, multiStep, loginTrace, loginFailedAt, loginResult>>
  /\ UNCHANGED <<extractVars, ctxVars, scanVars, waitVars, mgrVars, fbVars,
                 judgeVars, flagVars, panelVars,
                 siteVars, helperVars>>

\* ExternalSitePage.waitForLoginSuccess, first signal: waitForUrlContains
\* says whether the redirect happened (it catches its own errors).
RedirectProbeEnds(urlChanged) ==
  /\ loginPc = "judging" /\ loginPage = "external"
  /\ IF urlChanged
     THEN detectorResult' = "true" /\ loginPc' = "detected"
     ELSE UNCHANGED detectorResult /\ loginPc' = "indicator"
  /\ UNCHANGED <<loginPage, multiStep, loginTrace, loginFailedAt, loginResult>>
  /\ UNCHANGED <<extractVars, ctxVars, scanVars, waitVars, mgrVars, fbVars,
                 judgeVars, flagVars, panelVars,
                 siteVars, helperVars>>

\* ExternalSitePage.waitForLoginSuccess, second signal: the success
\* indicator becomes visible, or the wait raises and false is returned.
IndicatorProbeEnds(o) ==
  /\ loginPc = "indicator"
  /\ detectorResult' = IF o = "visible" THEN "true" ELSE "false"
  /\ loginPc' = "detected"
  /\ UNCHANGED <<loginPage, multiStep, loginTrace, loginFailedAt, loginResult>>
  /\ UNCHANGED <<extractVars, ctxVars, scanVars, waitVars, mgrVars, fbVars,
                 judgeVars, flagVars, panelVars,
                 siteVars, helperVars>>

\* `return await this.waitForLoginSuccess()` inside the try: the
\* detector's boolean is returned, its error goes to the catch.
LoginReturns ==
  /\ loginPc = "detected"
  /\ loginFailedAt' = IF detectorResult = "throw" THEN "waitForLoginSuccess"
                      ELSE loginFailedAt
  /\ loginResult' = IF detectorResult = "throw"
                    THEN LoginCatch("waitForLoginSuccess")
                    ELSE detectorResult
  /\ loginPc' = "done"
  /\ UNCHANGED <<loginPage, multiStep, loginTrace, detectorResult>>
  /\ UNCHANGED <<extractVars, ctxVars, scanVars, waitVars, mgrVars, fbVars,
                 judgeVars, flagVars, panelVars,
                 siteVars, helperVars>>

NextLogin ==
  \/ \E page \in {"sidePanel", "external"}, multi \in BOOLEAN :
        LoginCall(page, multi)
  \/ StepResolves
  \/ StepRejects
  \/ SidePanelDetectorStep
  \/ SidePanelDetectorEnds
  \/ \E urlChanged \in BOOLEAN : RedirectProbeEnds(urlChanged)
  \/ \E o \in {"visible", "error"} : IndicatorProbeEnds(o)
  \/ LoginReturns

InitLogin == ExtractIdle /\ CtxEmpty /\ ScanIdle /\ WaitIdle /\ MgrInit /\ FbIdle /\ JudgeIdle
  /\ FlagsIdle /\ LoginIdle /\ PanelIdle /\ SiteIdle /\ HelperIdle

SpecLogin == InitLogin /\ [][NextLogin]_vars

----------------------------------------------------------------------------
(* SidePanelHelper: the side panel opened in a page of its own, next to    *)
(* the main page the caller works with.                                    *)

MaxPanelPages == 2   \* pages open in the context before the first call
MaxPanelCalls == 2   \* calls of openSidePanelAlongside in a run

BlankUrl == Str(<<"a","b","o","u","t",":","b","l","a","n","k">>)
SiteUrl  == Str(<<"h","t","t","p","s",":","/","/","s">>)

\* The extensionId the helper was constructed with.
PanelIds == {NULL, Str(<<"a","b">>)}

\* Pages a test has open when it constructs the helper.
OpenPages ==
  UNION {[1..n -> {[url |-> u, closed |-> FALSE] : u \in {BlankUrl, SiteUrl}}]
           : n \in 1..MaxPanelPages}

\* SidePanelHelper.getSidePanelUrl()
HelperSidePanelUrl ==
  Str(Scheme \o TemplateText(panelId) \o <<"/">> \o SidePanelFile)

\* The page openSidePanelAlongside navigates and waits on.
NavigatedPage_MainPage == mainPage

NavigatedPage == sidePanelPage

\* SidePanelHelper.getPages()
getPages == [mainPage |-> mainPage, sidePanelPage |-> sidePanelPage]

\* SidePanelHelper.isSidePanelOpen()
isSidePanelOpen ==
  sidePanelPage # 0 /\ ~panelPages[sidePanelPage].closed

\* openSidePanelAlongside(mainPage) is called with an open page of the
\* context: the page is remembered and context.newPage() is awaited.
PanelCall(mp) ==
  /\ panelPc \in {"idle", "returned", "thrown", "closed"}
  /\ panelCalls < MaxPanelCalls
  /\ mp \in 1..Len(panelPages) /\ ~panelPages[mp].closed
  /\ panelCalls' = panelCalls + 1
  /\ mainPage' = mp
  /\ panelEntry' = panelPages
  /\ panelCreated' = 0
  /\ panelResult' = 0
  /\ panelPc' = "newPage"
  /\ UNCHANGED <<panelPages, sidePanelPage, panelId>>
  /\ UNCHANGED <<extractVars, ctxVars, scanVars, waitVars, mgrVars, fbVars,
                 judgeVars, flagVars, loginVars,
                 siteVars, helperVars>>

\* context.newPage() resolves with a new blank page, which becomes
\* this.sidePanelPage; its navigation is awaited.
PanelNewPageResolves ==
  /\ panelPc = "newPage"
  /\ panelPages' = Append(panelPages, [url |-> BlankUrl, closed |-> FALSE])
  /\ sidePanelPage' = Len(panelPages')
  /\ panelCreated' = panelCreated + 1
  /\ panelPc' = "goto"
  /\ UNCHANGED <<mainPage, panelId, panelCalls, panelEntry, panelResult>>
  /\ UNCHANGED <<extractVars, ctxVars, scanVars, waitVars, mgrVars, fbVars,
                 judgeVars, flagVars, loginVars,
                 siteVars, helperVars>>

\* goto(getSidePanelUrl()) resolves: the page shows the side panel.
PanelGotoResolves ==
  /\ panelPc = "goto"
  /\ panelPages' = [panelPages EXCEPT ![NavigatedPage].url = HelperSidePanelUrl]
  /\ panelPc' = "loadState"
  /\ UNCHANGED <<mainPage, sidePanelPage, panelId, panelCalls, panelCreated,
                 panelEntry, panelResult>>
  /\ UNCHANGED <<extractVars, ctxVars, scanVars, waitVars, mgrVars, fbVars,
                 judgeVars, flagVars, loginVars,
                 siteVars, helperVars>>

\* waitForLoadState('domcontentloaded') resolves.
PanelLoadStateResolves ==
  /\ panelPc = "loadState"
  /\ panelPc' = "selector"
  /\ UNCHANGED <<panelPages, mainPage, sidePanelPage, panelId, panelCalls,
                 panelCreated, panelEntry, panelResult>>
  /\ UNCHANGED <<extractVars, ctxVars, scanVars, waitVars, mgrVars, fbVars,
                 judgeVars, flagVars, loginVars,
                 siteVars, helperVars>>

\* waitForSelector('#root') resolves and the side panel page is returned.
PanelSelectorResolves ==
  /\ panelPc = "selector"
  /\ panelResult' = sidePanelPage
  /\ panelPc' = "returned"
  /\ UNCHANGED <<panelPages, mainPage, sidePanelPage, panelId, panelCalls,
                 panelCreated, panelEntry>>
  /\ UNCHANGED <<extractVars, ctxVars, scanVars, waitVars, mgrVars, fbVars,
                 judgeVars, flagVars, loginVars,
                 siteVars, helperVars>>

\* One of the four awaits rejects (the context is closed, the address does
\* not load, #root is not attached within its 10000 ms): nothing catches
\* it, and what was done so far stays done.
PanelAwaitRejects ==
  /\ panelPc \in {"newPage", "goto", "loadState", "selector"}
  /\ panelPc' = "thrown"
  /\ UNCHANGED <<panelPages, mainPage, sidePanelPage, panelId, panelCalls,
                 panelCreated, panelEntry, panelResult>>
  /\ UNCHANGED <<extractVars, ctxVars, scanVars, waitVars, mgrVars, fbVars,
                 judgeVars, flagVars, loginVars,
                 siteVars, helperVars>>

\* closeSidePanel(): an open side panel page is closed and forgotten.
closeSidePanel ==
  /\ panelPc \in {"returned", "thrown"}
  /\ isSidePanelOpen
  /\ panelPages' = [panelPages EXCEPT ![sidePanelPage].closed = TRUE]
  /\ sidePanelPage' = 0
  /\ panelPc' = "closed"
  /\ UNCHANGED <<mainPage, panelId, panelCalls, panelCreated, panelEntry,
                 panelResult>>
  /\ UNCHANGED <<extractVars, ctxVars, scanVars, waitVars, mgrVars, fbVars,
                 judgeVars, flagVars, loginVars,
                 siteVars, helperVars>>

NextPanel ==
  \/ \E mp \in 1..(MaxPanelPages + MaxPanelCalls) : PanelCall(mp)
  \/ PanelNewPageResolves
  \/ PanelGotoResolves
  \/ PanelLoadStateResolves
  \/ PanelSelectorResolves
  \/ PanelAwaitRejects
  \/ closeSidePanel

\* A helper just constructed, for a context with some pages open.
InitPanel ==
  /\ ExtractIdle /\ CtxEmpty /\ ScanIdle /\ WaitIdle /\ MgrInit /\ FbIdle
  /\ JudgeIdle /\ FlagsIdle /\ LoginIdle /\ SiteIdle /\ HelperIdle
  /\ panelPc = "idle" /\ panelPages \in OpenPages /\ mainPage = 0
  /\ sidePanelPage = 0 /\ panelId \in PanelIds /\ panelCalls = 0
  /\ panelCreated = 0 /\ panelEntry = <<>> /\ panelResult = 0

SpecPanel == InitPanel /\ [][NextPanel]_vars

----------------------------------------------------------------------------
(* ExternalSitePage: how the login on the external site is judged, with    *)
(* the configuration as shipped.                                           *)

MaxSiteNav == 2   \* navigations of the page after the login attempt

\* String.prototype.includes
includes(s, part) ==
  \E i \in 0..(Len(s) - Len(part)) : SubSeq(s, i + 1, i + Len(part)) = part

\* testConfig.externalSite.url, the login page (External_BASE_URL unset).
LoginUrl ==
  <<"h","t","t","p","s",":","/","/","a","u","t","h","o","r",".","n","o","r",
    "d","i","c",".","c","o","n","f","i","r","m","i","t",".","c","o","m","/",
    "h","o","m","e","/">>

\* testConfig.externalSite.redirectAfterLogin.urlContains
RedirectMarker ==
  <<"c","o","n","f","i","r","m","i","t",".","c","o","m">>

\* Where the page may go after the login attempt: back to the login page,
\* to a page of the site behind the login, to a page of another site.
LaunchpadUrl ==
  <<"h","t","t","p","s",":","/","/","a","u","t","h","o","r",".","n","o","r",
    "d","i","c",".","c","o","n","f","i","r","m","i","t",".","c","o","m","/",
    "l","a","u","n","c","h","p","a","d">>

ElsewhereUrl ==
  <<"h","t","t","p","s",":","/","/","s","s","o",".","e","x","a","m","p","l",
    "e","/","d","e","n","i","e","d">>

SiteUrls == {LoginUrl, LaunchpadUrl, ElsewhereUrl}

\* The predicate of waitForUrlContains, and the test of isLoggedIn, for
\* the redirect marker: `url.href.includes(urlPart)`
UrlMatches(u) == includes(u.s, RedirectMarker)

\* The page goes to u.
SiteNavigates(u) ==
  /\ sitePc # "done"
  /\ Len(siteTrail) < MaxSiteNav
  /\ siteUrl' = Str(u)
  /\ siteTrail' = Append(siteTrail, u)
  /\ UNCHANGED <<sitePc, siteCall, siteIndicator, siteResult>>
  /\ UNCHANGED <<extractVars, ctxVars, scanVars, waitVars, mgrVars, fbVars,
                 judgeVars, flagVars, loginVars, panelVars, helperVars>>

\* The success indicator becomes visible.
SiteIndicatorShows ==
  /\ sitePc # "done"
  /\ ~siteIndicator
  /\ siteIndicator' = TRUE
  /\ UNCHANGED <<sitePc, siteCall, siteUrl, siteTrail, siteResult>>
  /\ UNCHANGED <<extractVars, ctxVars, scanVars, waitVars, mgrVars, fbVars,
                 judgeVars, flagVars, loginVars, panelVars, helperVars>>

\* waitForLoginSuccess() is called: waitForUrlContains is awaited.
WaitForLoginSuccessCall ==
  /\ sitePc = "idle"
  /\ siteCall' = "waitForLoginSuccess"
  /\ sitePc' = "url"
  /\ UNCHANGED <<siteUrl, siteIndicator, siteTrail, siteResult>>
  /\ UNCHANGED <<extractVars, ctxVars, scanVars, waitVars, mgrVars, fbVars,
                 judgeVars, flagVars, loginVars, panelVars, helperVars>>

\* waitForUrlContains ends: page.waitForURL resolves as soon as the URL
\* of the page satisfies the predicate, at once if it does already, and
\* true is returned; or it times out on a URL that does not, and the wait
\* for the success indicator comes next.
UrlWaitEnds ==
  /\ sitePc = "url"
  /\ IF UrlMatches(siteUrl)
     THEN siteResult' = "true" /\ sitePc' = "done"
     ELSE UNCHANGED siteResult /\ sitePc' = "indicator"
  /\ UNCHANGED <<siteCall, siteUrl, siteIndicator, siteTrail>>
  /\ UNCHANGED <<extractVars, ctxVars, scanVars, waitVars, mgrVars, fbVars,
                 judgeVars, flagVars, loginVars, panelVars, helperVars>>

\* isLoggedIn() is called: the URL is tested in the call itself, and the
\* success indicator is waited for if the test fails.
IsLoggedInCall ==
  /\ sitePc = "idle"
  /\ siteCall' = "isLoggedIn"
  /\ IF UrlMatches(siteUrl)
     THEN siteResult' = "true" /\ sitePc' = "done"
     ELSE UNCHANGED siteResult /\ sitePc' = "indicator"
  /\ UNCHANGED <<siteUrl, siteIndicator, siteTrail>>
  /\ UNCHANGED <<extractVars, ctxVars, scanVars, waitVars, mgrVars, fbVars,
                 judgeVars, flagVars, loginVars, panelVars, helperVars>>

\* waitForVisible(successIndicator) ends: true if the indicator is
\* visible, false when the wait times out and the catch runs.
IndicatorWaitEnds ==
  /\ sitePc = "indicator"
  /\ siteResult' = IF siteIndicator THEN "true" ELSE "false"
  /\ sitePc' = "done"
  /\ UNCHANGED <<siteCall, siteUrl, siteIndicator, siteTrail>>
  /\ UNCHANGED <<extractVars, ctxVars, scanVars, waitVars, mgrVars, fbVars,
                 judgeVars, flagVars, loginVars, panelVars, helperVars>>

NextSite ==
  \/ \E u \in SiteUrls : SiteNavigates(u)
  \/ SiteIndicatorShows
  \/ WaitForLoginSuccessCall
  \/ UrlWaitEnds
  \/ IsLoggedInCall
  \/ IndicatorWaitEnds

\* The page after goto() and a login attempt: on the login URL.
InitSite ==
  /\ ExtractIdle /\ CtxEmpty /\ ScanIdle /\ WaitIdle /\ MgrInit /\ FbIdle
  /\ JudgeIdle /\ FlagsIdle /\ LoginIdle /\ PanelIdle /\ HelperIdle
  /\ sitePc = "idle" /\ siteCall = "" /\ siteUrl = Str(LoginUrl)
  /\ siteIndicator = FALSE /\ siteTrail = <<>> /\ siteResult = "unset"

SpecSite == InitSite /\ [][NextSite]_vars

----------------------------------------------------------------------------
(* ExtensionHelper, the legacy helper with its own identifier discovery.   *)

MaxHelperLaunches == 2   \* launchBrowserWithExtension calls in a run
MaxHelperWorkers  == 2   \* service workers the context shows to the helper
MaxHelperPages    == 1   \* background pages, and open pages, it shows

\* What a context may show when the helper's polling loop ends: the loop
\* ends with a service worker as soon as there is one, and with none when
\* the load timeout has passed.
HelperViews ==
  [sw : SeqsUpTo(CtxUrls, MaxHelperWorkers),
   bg : SeqsUpTo(CtxUrls, MaxHelperPages),
   pg : SeqsUpTo(CtxUrls, MaxHelperPages)]

\* `url.split('/')[2]`, undefined (here null) when there is no such segment.
HostSegment(u) == IF Len(split(u)) >= 3 THEN Str(split(u)[3]) ELSE NULL

\* The first open page whose URL starts with the scheme, 0 if none.
RECURSIVE FirstExtensionPage(_, _)
FirstExtensionPage(pg, i) ==
  IF i > Len(pg) THEN 0
  ELSE IF startsWith(pg[i], Scheme) THEN i
  ELSE FirstExtensionPage(pg, i + 1)

\* waitForExtensionLoad assigns this.extensionId: from the first service
\* worker if there is one, else from the first extension page if there is
\* one, else not at all.
HelperAssigns(view) ==
  view.sw # <<>> \/ FirstExtensionPage(view.pg, 1) # 0

\* this.extensionId after those assignments, `old` being its value before.
HelperStores(view, old) ==
  IF view.sw # <<>> THEN HostSegment(view.sw[1])
  ELSE IF FirstExtensionPage(view.pg, 1) # 0
       THEN HostSegment(view.pg[FirstExtensionPage(view.pg, 1)])
       ELSE old

\* launchBrowserWithExtension() is called: launchPersistentContext is
\* awaited.
HelperLaunchBegins ==
  /\ hPc \in {"idle", "done"}
  /\ hLaunches < MaxHelperLaunches
  /\ hPc' = "creating"
  /\ hResult' = "unset"
  /\ UNCHANGED <<hContext, hExtensionId, hView, hIdContext, hLaunches>>
  /\ UNCHANGED <<extractVars, ctxVars, scanVars, waitVars, mgrVars, fbVars,
                 judgeVars, flagVars, loginVars, panelVars, siteVars>>

\* launchPersistentContext resolves: the context is stored and
\* waitForExtensionLoad starts to poll it.
HelperContextCreated ==
  /\ hPc = "creating"
  /\ hLaunches' = hLaunches + 1
  /\ hContext' = hLaunches'
  /\ hView' = NoView
  /\ hPc' = "loading"
  /\ UNCHANGED <<hExtensionId, hIdContext, hResult>>
  /\ UNCHANGED <<extractVars, ctxVars, scanVars, waitVars, mgrVars, fbVars,
                 judgeVars, flagVars, loginVars, panelVars, siteVars>>

\* launchPersistentContext rejects: the call throws, the fields stay.
HelperCreateFails ==
  /\ hPc = "creating"
  /\ hPc' = "done"
  /\ hResult' = "throw"
  /\ UNCHANGED <<hContext, hExtensionId, hView, hIdContext, hLaunches>>
  /\ UNCHANGED <<extractVars, ctxVars, scanVars, waitVars, mgrVars, fbVars,
                 judgeVars, flagVars, loginVars, panelVars, siteVars>>

\* The polling loop of waitForExtensionLoad ends on a context that shows
\* `view`: the identifier is assigned, or not, and the call throws if
\* this.extensionId is falsy then.
HelperLoadEnds(view) ==
  /\ hPc = "loading"
  /\ hView' = view
  /\ hExtensionId' = HelperStores(view, hExtensionId)
  /\ hIdContext' = IF HelperAssigns(view) THEN hContext ELSE hIdContext
  /\ hResult' = IF Truthy(hExtensionId') THEN "ok" ELSE "throw"
  /\ hPc' = "done"
  /\ UNCHANGED <<hContext, hLaunches>>
  /\ UNCHANGED <<extractVars, ctxVars, scanVars, waitVars, mgrVars, fbVars,
                 judgeVars, flagVars, loginVars, panelVars, siteVars>>

\* close() with a context stored: it is closed, and the context and the
\* identifier are cleared.
HelperClose ==
  /\ hPc = "done"
  /\ hContext # 0
  /\ hContext' = 0
  /\ hExtensionId' = NULL
  /\ hIdContext' = 0
  /\ hResult' = "unset"
  /\ UNCHANGED <<hPc, hView, hLaunches>>
  /\ UNCHANGED <<extractVars, ctxVars, scanVars, waitVars, mgrVars, fbVars,
                 judgeVars, flagVars, loginVars, panelVars, siteVars>>

NextHelper ==
  \/ HelperLaunchBegins
  \/ HelperContextCreated
  \/ HelperCreateFails
  \/ \E view \in HelperViews : HelperLoadEnds(view)
  \/ HelperClose

InitHelper == ExtractIdle /\ CtxEmpty /\ ScanIdle /\ WaitIdle /\ MgrInit /\ FbIdle /\ JudgeIdle
  /\ FlagsIdle /\ LoginIdle /\ PanelIdle /\ SiteIdle /\ HelperIdle

SpecHelper == InitHelper /\ [][NextHelper]_vars

----------------------------------------------------------------------------
(* Claims about the pure functions. *)

HasScheme(u) == u.kind = "str" /\ startsWith(u.s, Scheme)

\* C8: extractIdFromUrl is a parse of its argument alone: for a URL
\* chrome-extension://ID/path it returns exactly ID, the text between the
\* scheme prefix and the next '/'; for a URL that does not start with the
\* prefix, and for null and the empty string, it returns null.
C8_ExtractIsParse ==
  extracted # UNSET =>
    /\ HasScheme(url) =>
         \A k \in (Len(Scheme) + 1)..Len(url.s) :
           ( /\ url.s[k] = "/"
             /\ \A j \in (Len(Scheme) + 1)..(k - 1) : url.s[j] # "/" )
           => extracted = Str(SubSeq(url.s, Len(Scheme) + 1, k - 1))
    /\ ~HasScheme(url) => extracted = NULL

\* C8 witness: chrome-extension://a/b was parsed to 'a'.
C8_Witness ==
  /\ url = Str(Scheme \o <<"a","/","b">>)
  /\ extracted = Str(<<"a">>)

\* The identifier a channel yields: that of its first URL with the scheme
\* and a non-empty identifier, as a specification by least index.
Matches(u) == HasScheme(Str(u)) /\ Truthy(extractIdFromUrl(Str(u)))

ChannelId(urls) ==
  IF \E i \in 1..Len(urls) : Matches(urls[i])
  THEN LET i == CHOOSE k \in 1..Len(urls) :
                  Matches(urls[k]) /\ \A j \in 1..(k - 1) : ~Matches(urls[j])
       IN extractIdFromUrl(Str(urls[i]))
  ELSE NULL

\* C9: getExtensionId returns the first identifier among the service
\* workers, else the first among the background pages, else the first among
\* the open pages, else null; one worker at chrome-extension://XYZ/sw.js
\* yields XYZ.
C9_ScanPriority ==
  scanned # UNSET =>
    /\ scanned =
         IF ChannelId(serviceWorkers) # NULL THEN ChannelId(serviceWorkers)
         ELSE IF ChannelId(backgroundPages) # NULL THEN ChannelId(backgroundPages)
         ELSE ChannelId(pages)
    /\ (serviceWorkers = <<UrlXYZ>>) => scanned = Str(<<"X","Y","Z">>)

\* C9 witness: the workers yield QED and the open pages XYZ; QED is returned.
C9_Witness ==
  /\ serviceWorkers = <<UrlWeb, UrlQED>>
  /\ backgroundPages = <<>>
  /\ pages = <<UrlXYZ>>
  /\ scanned = Str(<<"Q","E","D">>)

----------------------------------------------------------------------------
(* Claims about BrowserManager, its calls awaited one at a time. *)

OpenContexts == {c \in Ctxs : isOpen[c]}

\* C2: an accessor called before any launch(), while a launch() is in
\* progress, after a launch() that failed in discovery, or after close()
\* throws the Uninitialized error; an accessor that returns never returns
\* a null context or a null identifier.
C2_AccessorsRequireReady ==
  lastAccess.name # "none" =>
    /\ ( \/ lastAccess.fresh
         \/ lastAccess.launching
         \/ (lastAccess.after.op = "launch" /\ lastAccess.after.result = "throw")
         \/ (lastAccess.after.op = "close" /\ lastAccess.after.result # "pending") )
       => lastAccess.error = "Uninitialized"
    /\ lastAccess.error = "" =>
         /\ lastAccess.name \in {"getContext", "newPage", "getPages"}
              => lastAccess.ctx # 0
         /\ lastAccess.name \in {"getExtensionId", "getSidePanelUrl", "getExtensionPageUrl"}
              => Truthy(lastAccess.str)

\* C2 witness: getExtensionId called while discovery was pending threw.
C2_Witness ==
  /\ lastAccess.name = "getExtensionId"
  /\ lastAccess.launching
  /\ lastAccess.error = "Uninitialized"
  /\ context # 0

\* C3: launch() on a manager that is already initialized creates no
\* context, starts no discovery, returns the manager, and leaves the
\* stored identifier, hence what getExtensionId returns, as it was.
C3_LaunchIdempotentInReady ==
  (lastCall.op = "launch" /\ lastCall.result # "pending" /\ prev.isInitialized) =>
    /\ lastCall.result = "this"
    /\ created = prev.created
    /\ discoveries = prev.discoveries
    /\ context = prev.context
    /\ extensionId = prev.extensionId
    /\ isInitialized

\* C3 witness: a second launch() returned on an initialized manager.
C3_Witness ==
  /\ lastCall.op = "launch" /\ lastCall.result = "this"
  /\ prev.isInitialized
  /\ created = 1

\* C4: with each call awaited before the next, the contexts created and
\* not yet closed never number more than one.
C4_AtMostOneOpenContext == Cardinality(OpenContexts) <= 1

\* C5: close() on a manager that holds a context closes that context once,
\* clears the stored context and identifier and leaves the manager not
\* initialized; close() on a manager that holds none changes nothing.
C5_CloseTearsDown ==
  (lastCall.op = "close" /\ lastCall.result # "pending") =>
    IF prev.context # 0
    THEN /\ lastCall.result = "closed"
         /\ prev.isOpen[prev.context]
         /\ ~isOpen[prev.context]
         /\ closeCount[prev.context] = 1
         /\ \A c \in Ctxs : c # prev.context => closeCount[c] = prev.closeCount[c]
         /\ context = 0
         /\ extensionId = NULL
         /\ ~isInitialized
    ELSE /\ lastCall.result = "noop"
         /\ Snapshot = prev

\* C5 witness: close() after a launch() that failed in discovery closed the
\* context that launch had left open.
C5_Witness ==
  /\ lastCall.op = "close" /\ lastCall.result = "closed"
  /\ ~prev.isInitialized
  /\ closeCount[prev.context] = 1

\* C6: when discovery throws, launch() throws that same error, does not
\* close the context it created, and leaves the manager not initialized,
\* so that _ensureInitialized throws for every accessor.
C6_FailedLaunch ==
  (lastCall.op = "launch" /\ lastCall.result = "throw" /\ lastCall.discoveryError # "") =>
    /\ lastCall.error = lastCall.discoveryError
    /\ context = lastCall.ctx
    /\ isOpen[lastCall.ctx]
    /\ closeCount[lastCall.ctx] = 0
    /\ ~isInitialized
    /\ ensureInitializedThrows
    /\ extensionId = NULL

\* C6 witness: a launch() failed with the discovery timeout on a context in
\* which the extension was loaded.
C6_Witness ==
  /\ lastCall.op = "launch" /\ lastCall.result = "throw"
  /\ lastCall.error = "DiscoveryTimeout"
  /\ Truthy(browserId[lastCall.ctx])

\* C7: with the calls awaited one at a time, no context is ever associated
\* with two identifiers, whether stored in the manager or returned by
\* getExtensionId, and a stored identifier is the one discovered on the
\* stored context.
C7_IdentifierImmutable ==
  /\ \A c \in Ctxs : Cardinality(idsOf[c]) <= 1
  /\ (context # 0 /\ extensionId # NULL) => extensionId = browserId[context]

\* C7 witness: getExtensionId returned on the second context the manager
\* launched, whose identifier differs from the first one's.
C7_Witness ==
  /\ created >= 2
  /\ browserId[1] # browserId[2] /\ Truthy(browserId[1])
  /\ closeCount[1] = 1
  /\ context = 2
  /\ lastAccess.name = "getExtensionId" /\ lastAccess.error = ""
  /\ lastAccess.str = browserId[2]

----------------------------------------------------------------------------
(* Claims about one call of waitForExtensionId. *)

\* C1: whatever the order of the worker event, the polling cycles and the
\* timeout, the call delivers one result, an identifier or null, which is
\* the first settlement of the race; every later settlement leaves the
\* race and the result as they were, and nothing throws.
C1_SingleResolution ==
  /\ outcomes <= 1
  /\ ~raised
  /\ (waitPc = "returned") <=> (racePromise # PENDING)
  /\ waitPc = "returned" =>
       /\ outcomes = 1
       /\ returned = racePromise
       /\ returned.kind \in {"str", "null"}
  /\ waitPc # "returned" => (outcomes = 0 /\ returned = UNSET /\ lateSettles = 0)

\* C1 witness: the event observer and the polling observer both matched in
\* one call, which returned the identifier of the first.
C1_Witness ==
  /\ waitPc = "returned"
  /\ eventPromise.kind = "str"
  /\ pollingPromise.kind = "str"
  /\ returned.kind = "str"
  /\ lateSettles >= 2

\* C10: the call is never still pending after startTime + timeout, it
\* returns no later than that instant, and when no channel matched and no
\* matching worker event arrived during the call it returns null in
\* exactly that instant.
C10_HardTimeout ==
  /\ waitPc = "racing" => now <= startTime + timeout
  /\ waitPc = "returned" => returnTime <= startTime + timeout
  /\ (waitPc = "returned" /\ ~matchSeen) =>
       (returned = NULL /\ returnTime = startTime + timeout)

\* C10 witness: a call made after the clock started, with a poll interval
\* that does not divide the timeout, returned null when the timeout fired.
C10_Witness ==
  /\ waitPc = "returned"
  /\ returned = NULL
  /\ startTime = 1 /\ timeout = 3 /\ pollInterval = 2
  /\ returnTime = 4
  /\ timeoutPromise = NULL
  /\ pollingPromise = PENDING

\* The polling tick recorded in `seen` falls before the timeout and has run.
SeenTickRan ==
  /\ seen.tick # NoTimer
  /\ PollLoopContinues(seen.tick, startTime, timeout)
  /\ \/ now > seen.tick
     \/ now = seen.tick /\ pollTimer # seen.tick

\* C11: an identifier that becomes observable by a scan at time t and stays
\* so is returned no later than the first polling tick at or after t, when
\* that tick falls before the timeout; while the call awaits the race the
\* next tick is armed, on the grid startTime + k * pollInterval, at most
\* one pollInterval ahead.  (A page at chrome-extension://QED/... that
\* opens after two empty cycles is returned by the third.)
C11_PollingLatency ==
  /\ waitPc = "racing" =>
       /\ pollTimer # NoTimer
       /\ now <= pollTimer /\ pollTimer <= now + pollInterval
       /\ (pollTimer - startTime) % pollInterval = 0
  /\ (waitPc # "idle" /\ Truthy(seen.id) /\ SeenTickRan) =>
       /\ waitPc = "returned"
       /\ returned = seen.id
       /\ returnTime <= seen.tick
       /\ seen.tick <= seen.at + pollInterval

\* C11 witness: pollInterval 1, timeout 3; two cycles found nothing, then a
\* page of QED opened and the third cycle returned QED.
C11_Witness ==
  /\ waitPc = "returned" /\ pollInterval = 1 /\ timeout = 3
  /\ serviceWorkers = <<>> /\ backgroundPages = <<>> /\ pages = <<UrlQED>>
  /\ seen.id = Str(<<"Q","E","D">>) /\ seen.at > startTime
  /\ seen.tick = startTime + 2 * pollInterval
  /\ returned = Str(<<"Q","E","D">>)
  /\ returnTime = startTime + 2 * pollInterval

\* C19: once `timeout` plus one pollInterval has elapsed since the call
\* started, the call's listener is no longer subscribed on the context, its
\* polling loop has ended and none of its timers is pending.
C19_ObserversEndByTimeout ==
  (waitPc = "returned" /\ now > startTime + timeout + pollInterval) =>
    /\ ~listening
    /\ pollTimer = NoTimer
    /\ timeoutTimer = NoTimer

----------------------------------------------------------------------------
(* Claims about waitForExtensionIdWithFallback. *)

\* No scan of the context finds an identifier.  The browser only adds to
\* the context during the call, so none was to be found earlier either.
NoIdentifierAppeared ==
  ~Truthy(getExtensionId(serviceWorkers, backgroundPages, pages))

\* C12: the call never returns none: it returns a non-empty identifier or
\* it fails; and when no identifier ever appears, both attempts return
\* none, the trigger navigation is performed once, and the call fails with
\* DiscoveryTimeout, the error naming the extension path and manifest.
C12_NeverNoneElseDiscoveryTimeout ==
  fbPc = "done" =>
    /\ \/ fbResult.kind = "value" /\ Truthy(fbResult.v)
       \/ fbResult.kind = "error"
    /\ NoIdentifierAppeared =>
         /\ attempts = <<NULL, NULL>>
         /\ gotoCalls = 1
         /\ fbResult.kind = "error"
         /\ fbResult.error = "DiscoveryTimeout"

\* The part of C13 that holds as stated: the trigger page is opened and
\* navigated at most once, and only after a first attempt that returned
\* none.
TriggerAtMostOnceAfterNone ==
  /\ newPageCalls <= 1 /\ gotoCalls <= 1
  /\ newPageCalls > 0 => (Len(attempts) >= 1 /\ attempts[1] = NULL)
  /\ (Len(attempts) >= 1 /\ Truthy(attempts[1])) =>
       (newPageCalls = 0 /\ gotoCalls = 0 /\ tempPage = "none")

\* C13 as stated: the trigger page is opened and navigated at most once,
\* only after the first attempt returned none, and every call that ends
\* in failure has called the trigger navigation exactly once.
C13_TriggerOnceBeforeFailure ==
  /\ TriggerAtMostOnceAfterNone
  /\ (fbPc = "done" /\ fbResult.kind = "error") => gotoCalls = 1

\* C13, amended: ... and every call that ends in failure has asked for the
\* trigger page exactly once; it has called the trigger navigation exactly
\* once if the page opened, and not at all if opening the page failed.
C13_TriggerAttemptedOnceBeforeFailure ==
  /\ TriggerAtMostOnceAfterNone
  /\ (fbPc = "done" /\ fbResult.kind = "error") =>
       /\ newPageCalls = 1
       /\ tempPage # "none" => gotoCalls = 1
       /\ tempPage = "none" =>
            (gotoCalls = 0 /\ fbResult.error = "TriggerPageError")

\* C13 witness: both attempts returned none around one trigger navigation,
\* and the call failed.
C13_Witness ==
  /\ fbPc = "done" /\ fbResult.kind = "error"
  /\ attempts = <<NULL, NULL>>
  /\ newPageCalls = 1 /\ gotoCalls = 1 /\ tempPage = "closed"

\* The pages of the context that the call did not create.
ForeignPages == IF tempPage = "open" THEN RemoveAt(pages, tempIdx) ELSE pages

\* C20: the call creates at most one page, the trigger page; the pages it
\* did not create stay as the browser has them, neither closed nor
\* navigated; and however the call ends (identifier, DiscoveryTimeout, or
\* an error of the trigger phase) the trigger page has been closed, so the
\* open pages are those at entry with those the browser opened itself.
C20_BorrowsContext ==
  /\ newPageCalls <= 1
  /\ fbPc # "idle" => ForeignPages = entryPages \o envOpened
  /\ fbPc = "done" =>
       /\ tempPage # "open"
       /\ pages = entryPages \o envOpened

\* C20 witness: the trigger navigation failed, the trigger page was closed
\* on the way out, and the page open at entry is still there.
C20_Witness ==
  /\ fbPc = "done" /\ fbResult.error = "TriggerNavigationError"
  /\ tempPage = "closed"
  /\ entryPages # <<>> /\ pages = entryPages

----------------------------------------------------------------------------
(* Claims about waitForLoginSuccess. *)

Position(sig) == CHOOSE k \in 1..Len(SignalOrder) : SignalOrder[k] = sig

\* One of the first three signals fired, or both fields were read as empty.
SignalsDisjunction ==
  \/ fired \cap {"navigation", "marker", "form"} # {}
  \/ FieldsEmpty(usernameValue, passwordValue)

\* C14: the signals evaluated form a prefix of the order navigation,
\* success marker, form disappearance, field emptiness; a signal is
\* evaluated only after every earlier one has finished without firing; and
\* once a signal fires the call returns true and evaluates no later one (a
\* firing navigation signal leaves the form and field checks uninvoked).
C14_WaterfallOrder ==
  /\ Len(evaluated) <= Len(SignalOrder)
  /\ \A k \in 1..Len(evaluated) :
       /\ evaluated[k] = SignalOrder[k]
       /\ \A j \in 1..(k - 1) : evaluated[j] \notin fired
  /\ \A sig \in fired :
       /\ judgePc = "done" /\ judgeResult = "true"
       /\ Len(evaluated) = Position(sig)
  /\ "navigation" \in fired => evaluated = <<"navigation">>

\* C14 witness: the navigation signal timed out, the success marker fired,
\* and the call returned true with the last two signals unevaluated.
C14_Witness ==
  /\ judgePc = "done" /\ judgeResult = "true"
  /\ fired = {"marker"}
  /\ evaluated = <<"navigation", "marker">>
  /\ judgeElapsed >= NavTimeout

\* C15: the call never raises: whatever the page does, it ends by returning
\* a boolean, false when no signal fired.
C15_JudgeNeverRaises ==
  judgePc = "done" =>
    /\ judgeResult \in {"true", "false"}
    /\ fired = {} => judgeResult = "false"

\* C16: an error of the probe of any of the four signals is swallowed: the
\* signal counts as not fired and the next signal in order is evaluated,
\* or, after the last signal, the call returns false.
C16_ProbeErrorsSwallowed ==
  \A sig \in probeErrors :
    /\ sig \notin fired
    /\ judgeResult # "throw"
    /\ Position(sig) < Len(SignalOrder) =>
         /\ Len(evaluated) > Position(sig)
         /\ evaluated[Position(sig) + 1] = SignalOrder[Position(sig) + 1]
    /\ Position(sig) = Len(SignalOrder) =>
         (judgePc = "done" /\ judgeResult = "false")

\* C17: the call returns true exactly when the URL came to contain the
\* expected text in time, or else the success marker became visible in
\* time, or else the login form became hidden in time, or else both fields
\* read as empty; it returns false otherwise (with exactly one field
\* empty, for one).
C17_ResultIsDisjunction ==
  judgePc = "done" =>
    /\ judgeResult = (IF SignalsDisjunction THEN "true" ELSE "false")
    /\ (/\ fired \cap {"navigation", "marker", "form"} = {}
        /\ (usernameValue = Str(<<>>)) # (passwordValue = Str(<<>>)))
       => judgeResult = "false"

\* C18: every wait of the call has a timeout of the call's own, so the call
\* never spends more than the sum of its per-signal budgets.
C18_BoundedByBudgets ==
  judgeElapsed <= NavTimeout + MarkerTimeout + FormTimeout

----------------------------------------------------------------------------
(* Further claims about BrowserManager. *)

UrlAccessors == {"getSidePanelUrl", "getExtensionPageUrl"}

\* C21: an accessor call that succeeds finds a non-empty identifier; the
\* URL that getSidePanelUrl or getExtensionPageUrl(path) builds, for every
\* path, parses back to that identifier with extractIdFromUrl, and starts
\* with the scheme, the identifier and '/'.
C21_AddressRoundTrip ==
  [][ (lastAccess' # lastAccess /\ lastAccess'.error = "") =>
        /\ Truthy(extensionId)
        /\ lastAccess'.name = "getExtensionId" => lastAccess'.str = extensionId
        /\ lastAccess'.name \in UrlAccessors =>
             /\ extractIdFromUrl(lastAccess'.str) = extensionId
             /\ startsWith(lastAccess'.str.s,
                           Scheme \o extensionId.s \o <<"/">>) ]_vars

\* C21 witness: getExtensionPageUrl('a/b') returned
\* chrome-extension://QED/a/b on a manager whose identifier is QED.
C21_Witness ==
  /\ isInitialized /\ extensionId = Str(<<"Q","E","D">>)
  /\ lastAccess.name = "getExtensionPageUrl" /\ lastAccess.error = ""
  /\ lastAccess.str = Str(Scheme \o <<"Q","E","D","/","a","/","b">>)

\* C24 as stated: the flags passed to launchPersistentContext are the same
\* fixed set for every launch(), whatever the caller supplies.
C24_FixedLaunchFlags ==
  launchArgs # <<>> =>
    {launchArgs[k] : k \in 1..Len(launchArgs)} =
    {DefaultArgs[k] : k \in 1..Len(DefaultArgs)}

\* C24, amended: the flags passed always begin with the fixed flags, none
\* removed or reordered, and end with the flags of launchOptions.args.
C24_FixedFlagsThenCallerFlags ==
  launchArgs # <<>> =>
    /\ Len(launchArgs) >= Len(DefaultArgs)
    /\ SubSeq(launchArgs, 1, Len(DefaultArgs)) = DefaultArgs
    /\ SubSeq(launchArgs, Len(DefaultArgs) + 1, Len(launchArgs)) \in CallerArgs

\* C24 witness: a launch() given one flag of the caller's made the manager
\* ready, with that flag passed after the fixed ones.
C24_Witness ==
  /\ isInitialized
  /\ launchArgs = DefaultArgs \o <<"--mute-audio">>

\* close() has completed on a context of the manager.
WasClosed == \E c \in Ctxs : closeCount[c] > 0

Launching == \E k \in 1..Len(frames) : frames[k].op = "launch"

\* The manager is Closed: closed before, holding nothing, no call running.
ClosedState ==
  /\ WasClosed
  /\ context = 0 /\ extensionId = NULL /\ ~isInitialized
  /\ frames = <<>>

\* C25 as stated: once close() has closed the manager, it is never
\* Launching or Ready again.
C25_ClosedIsTerminal == WasClosed => (~isInitialized /\ ~Launching)

\* C25, amended: a Closed manager stays Closed under close() and under
\* every accessor, which fails with the not-initialized error; only
\* launch() takes it out of Closed.
C25_ClosedLeftOnlyByLaunch ==
  [][ ClosedState =>
        /\ ClosedState' \/ (lastCall'.op = "launch" /\ Launching')
        /\ lastAccess' # lastAccess =>
             (lastAccess'.error = "Uninitialized" /\ ClosedState') ]_vars

\* C25 witness: on a Closed manager a second close() did nothing and an
\* accessor then failed.
C25_Witness ==
  /\ ClosedState
  /\ lastCall.op = "close" /\ lastCall.result = "noop"
  /\ lastAccess.after = lastCall /\ lastAccess.error = "Uninitialized"

\* The last call was a launch() made on a Closed manager, and it returned.
RelaunchReturned ==
  /\ lastCall.op = "launch" /\ lastCall.result = "this"
  /\ prev.context = 0 /\ ~prev.isInitialized
  /\ \E c \in Ctxs : prev.closeCount[c] > 0

\* C26: launch() on a Closed manager creates a new context and runs
\* discovery on it; when it returns the manager is Ready, holding the new
\* context and the identifier discovered on it, and the accessors return
\* these.
C26_RelaunchAfterClose ==
  RelaunchReturned =>
    /\ created = prev.created + 1
    /\ context = created /\ lastCall.ctx = created
    /\ isOpen[context] /\ closeCount[context] = 0
    /\ discoveries = prev.discoveries + 1
    /\ isInitialized
    /\ Truthy(extensionId) /\ extensionId = browserId[context]
    /\ (lastAccess.after = lastCall) =>
         /\ lastAccess.error = ""
         /\ lastAccess.name \in {"getContext", "newPage", "getPages"} =>
              lastAccess.ctx = context
         /\ lastAccess.name = "getExtensionId" =>
              lastAccess.str = browserId[context]

\* C26 witness: the first context, of XYZ, was closed; launch() made a
\* second, of QED, and getExtensionId returns QED.
C26_Witness ==
  /\ RelaunchReturned
  /\ browserId[1] = Str(<<"X","Y","Z">>) /\ closeCount[1] = 1
  /\ context = 2 /\ isInitialized
  /\ lastAccess.after = lastCall /\ lastAccess.name = "getExtensionId"
  /\ lastAccess.str = Str(<<"Q","E","D">>)

----------------------------------------------------------------------------
(* Further claims about waitForExtensionIdWithFallback. *)

\* C27: after a first attempt that returned none the steps come in the
\* order open a page, navigate it, wait the settle delay, close the page,
\* second attempt: while the second attempt runs, the page has been
\* opened, navigated once and closed.
C27_ClosesBeforeSecondAttempt ==
  fbPc = "attempt2" =>
    /\ attempts = <<NULL>>
    /\ newPageCalls = 1 /\ gotoCalls = 1
    /\ fbClock.elapsed >= fbClock.inAttempts + Ticks(SettleDelay)
    /\ tempPage = "closed"

\* C28: the call fails only after both attempts have run their half of
\* the budget and returned none, and only with the DiscoveryTimeout error,
\* also when the trigger page cannot be opened or the navigation fails.
C28_FailsOnlyWithDiscoveryTimeout ==
  (fbPc = "done" /\ fbResult.kind = "error") =>
    /\ attempts = <<NULL, NULL>>
    /\ fbClock.inAttempts = Ticks(fbClock.timeout)
    /\ fbResult.error = "DiscoveryTimeout"

\* C29: each attempt is given exactly timeout / 2, there are at most two,
\* and the time spent inside them never exceeds the timeout.
C29_HalfBudgetSplit ==
  /\ Len(fbClock.budgets) <= 2
  /\ Len(attempts) <= Len(fbClock.budgets)
  /\ \A k \in 1..Len(fbClock.budgets) :
       2 * fbClock.budgets[k] = Ticks(fbClock.timeout)
  /\ fbClock.inAttempts <= Ticks(fbClock.timeout)

\* C29 witness: with a timeout of one unit, both attempts ran for half a
\* unit each and returned none.
C29_Witness ==
  /\ fbPc = "done" /\ attempts = <<NULL, NULL>>
  /\ fbClock.timeout = 1 /\ fbClock.budgets = <<1, 1>>
  /\ fbClock.inAttempts = Ticks(1)

\* C30: the time between the call and its return or failure never exceeds
\* the timeout.
C30_WithinTimeout ==
  fbPc = "done" => fbClock.elapsed <= Ticks(fbClock.timeout)

\* C23: login() of either page object always completes with a boolean: an
\* error raised by a step of the form or by the success detector makes it
\* return false, and it returns true only when the detector returned true.
C23_LoginYieldsBoolean ==
  loginPc = "done" =>
    /\ loginResult \in {"true", "false"}
    /\ (loginFailedAt # "" \/ detectorResult = "throw") => loginResult = "false"
    /\ loginResult = "true" => detectorResult = "true"

C23_Witness ==
  /\ loginPc = "done" /\ loginPage = "sidePanel"
  /\ detectorResult = "throw" /\ loginFailedAt = "waitForLoginSuccess"
  /\ loginResult = "false"


\* C22: a call of openSidePanelAlongside(mainPage) creates at most one
\* page, and exactly one when it returns; from the call until it has
\* returned or thrown it leaves mainPage, and every page that was there,
\* as it was, neither closed nor navigated; and when it returns, getPages() yields
\* that mainPage and the page created, which is the page returned and
\* shows the side panel, both open.
C22_SidePanelAlongside ==
  /\ panelPc \notin {"idle", "closed"} =>
        /\ panelPages[mainPage] = panelEntry[mainPage]
        /\ panelCreated <= 1
        /\ Len(panelPages) = Len(panelEntry) + panelCreated
        /\ \A k \in 1..Len(panelEntry) :
              panelPages[k].url = panelEntry[k].url
  /\ panelPc = "returned" =>
        /\ panelCreated = 1
        /\ getPages = [mainPage |-> mainPage,
                       sidePanelPage |-> Len(panelEntry) + 1]
        /\ panelResult = getPages.sidePanelPage
        /\ getPages.sidePanelPage # getPages.mainPage
        /\ ~panelPages[getPages.mainPage].closed
        /\ ~panelPages[getPages.sidePanelPage].closed
        /\ panelPages[getPages.sidePanelPage].url = HelperSidePanelUrl

C22_Witness ==
  /\ panelPc = "returned" /\ panelCalls = 2
  /\ mainPage = 1 /\ sidePanelPage = 4 /\ Len(panelPages) = 4
  /\ panelPages[1].url = SiteUrl /\ ~panelPages[1].closed
  /\ ~panelPages[4].closed


WorkerEvent(u) == serviceWorkers' = Append(serviceWorkers, u)

\* C32: while the call awaits the race its listener is subscribed, and a
\* 'serviceworker' event for a worker whose URL has the scheme and an
\* identifier makes the call return that identifier in the instant of the
\* event, whenever the next polling tick is due, and unsubscribes the
\* listener; an event for a worker whose URL lacks the scheme (or has it
\* with nothing for an identifier) leaves the listener subscribed and the
\* call awaiting.
C32_EventObserver ==
  [][ waitPc = "racing" =>
        /\ listening /\ eventPromise = PENDING
        /\ \A u \in CtxUrls :
              WorkerEvent(u) =>
                IF startsWith(u, Scheme) /\ extractIdFromUrl(Str(u)).s # <<>>
                THEN /\ waitPc' = "returned"
                     /\ returned' = extractIdFromUrl(Str(u))
                     /\ returnTime' = now /\ now' = now
                     /\ ~listening'
                ELSE /\ waitPc' = "racing"
                     /\ listening'
                     /\ eventPromise' = PENDING /\ racePromise' = PENDING
                     /\ returned' = UNSET
    ]_vars

\* C32 witness: a worker of a website was ignored, then the extension's
\* worker started between two polling ticks and the call returned its
\* identifier in that instant, before the tick that was armed.
C32_Witness ==
  /\ waitPc = "returned"
  /\ serviceWorkers = <<UrlWeb, UrlXYZ>>
  /\ returned = Str(<<"X","Y","Z">>)
  /\ eventPromise = returned /\ pollingPromise = PENDING
  /\ pollInterval = 2 /\ returnTime = startTime + 1
  /\ pollTimer = startTime + 2 /\ now = returnTime
  /\ ~listening


----------------------------------------------------------------------------
(* Claims about overlapping calls on one BrowserManager. *)

\* C33: launch() called while an earlier launch() is in progress creates
\* no second context: at most one launch() at a time has created a context
\* and awaits discovery on it, at most one context created by the manager
\* is open, and the identifier of a ready manager is the one of the
\* context it holds.
C33_OverlappingLaunchesShareContext ==
  /\ Cardinality({k \in 1..Len(frames) :
                    frames[k].op = "launch" /\ frames[k].pc = "discovering"}) <= 1
  /\ Cardinality(OpenContexts) <= 1
  /\ isInitialized => (context # 0 /\ extensionId = browserId[context])

\* C34: whenever isReady() is true the manager holds a context that is not
\* closed and an identifier; and when it is false after a close() that
\* completed, with no call in progress, both are null.
C34_ReadinessInvariant ==
  /\ isInitialized =>
        /\ context # 0 /\ isOpen[context]
        /\ extensionId # NULL
  /\ (~isInitialized /\ frames = <<>> /\ lastCall.op = "close"
        /\ lastCall.result = "closed") =>
        (context = 0 /\ extensionId = NULL)


----------------------------------------------------------------------------
(* Where an identifier comes from. *)

\* The URLs the context shows in its three channels.
UrlsOf(sw, bg, pg) ==
  {sw[k] : k \in 1..Len(sw)} \cup {bg[k] : k \in 1..Len(bg)}
    \cup {pg[k] : k \in 1..Len(pg)}

\* `id` is a non-empty identifier that extractIdFromUrl yields for a URL
\* among `urls`, and that URL starts with the scheme.
ComesFrom(id, urls) ==
  /\ Truthy(id)
  /\ \E u \in urls : startsWith(u, Scheme) /\ extractIdFromUrl(Str(u)) = id

\* C35: the scan of the context that the call starts with returns null or
\* a non-empty identifier extracted from a URL with the scheme that the
\* context shows in a channel; and when the call returns a value that is
\* not null, from a later scan or from the event handler, the value is
\* such an identifier for the context as it is in the instant of the
\* return, a moment between the call and its return.
C35_IdentifierProvenance ==
  [][ /\ (waitPc = "idle" /\ waitPc' # "idle") =>
            LET scan == getExtensionId(serviceWorkers, backgroundPages, pages) IN
              scan # NULL =>
                ComesFrom(scan, UrlsOf(serviceWorkers, backgroundPages, pages))
      /\ (waitPc # "returned" /\ waitPc' = "returned" /\ returned' # NULL) =>
            ComesFrom(returned', UrlsOf(serviceWorkers', backgroundPages', pages'))
    ]_vars

\* C35 witness: a worker whose URL has the scheme and no identifier was
\* passed over, and the polling loop returned the identifier of a page.
C35_Witness ==
  /\ waitPc = "returned"
  /\ serviceWorkers = <<UrlNoId>> /\ backgroundPages = <<>>
  /\ pages = <<UrlQED>>
  /\ returned = Str(<<"Q","E","D">>)
  /\ pollingPromise = returned


----------------------------------------------------------------------------
(* Claims about ExternalSitePage. *)

\* The page went from the login URL to another one that has the marker.
LeftForMarker ==
  \E k \in 1..Len(siteTrail) :
    siteTrail[k] # LoginUrl /\ includes(siteTrail[k], RedirectMarker)

\* C36: waitForLoginSuccess and isLoggedIn return true only if the page
\* left the login URL for one with the redirect marker or the success
\* indicator became visible; a page that stayed on the login URL, with no
\* success indicator, is judged false.
C36_ExternalSuccessNeedsSignal ==
  sitePc = "done" =>
    /\ siteResult = "true" => (LeftForMarker \/ siteIndicator)
    /\ (siteTrail = <<>> /\ ~siteIndicator) => siteResult = "false"


----------------------------------------------------------------------------
(* Claims about the legacy ExtensionHelper. *)

\* A launch of the helper has just returned.
HelperLaunched == hPc = "done" /\ hResult = "ok" /\ hContext # 0

\* C37: the identifier the helper stores for a context is what a scan of
\* that context by the extractor returns, and comes from a URL, shown by
\* the context, that starts with the scheme.
C37_HelperAgreesWithScan ==
  HelperLaunched =>
    /\ hExtensionId = getExtensionId(hView.sw, hView.bg, hView.pg)
    /\ ComesFrom(hExtensionId, UrlsOf(hView.sw, hView.bg, hView.pg))

\* C38: a launch whose context showed no service worker within the load
\* timeout and no open page with the scheme fails, whatever the helper
\* did before; and after a launch that returned, the identifier is one
\* found on the context the helper holds.
C38_NoStaleIdentifier ==
  (hPc = "done" /\ hResult # "unset") =>
    /\ ~HelperAssigns(hView) => hResult = "throw"
    /\ hResult = "ok" => (Truthy(hExtensionId) /\ hIdContext = hContext)

====
